---------------------------- MODULE Spec2Model ----------------------------
(***************************************************************************)
(* Model of the workflow-telemetry sampling engine:                        *)
(*   - the background process tracer (features/process/backgroundTracer)   *)
(*   - the setup / finalize phase process tracer (features/process/tracer) *)
(*   - the process data repository (features/process/processDataRepository)*)
(*   - the stats background collector (features/stats/statsDataRepository) *)
(*   - the stats data repository (features/stats/statsDataRepository)      *)
(*   - the report generators (features/process/chartGenerator,             *)
(*     tableGenerator) and the configuration (features/process/configLoader)*)
(* Times are milliseconds.  JavaScript's special values are encoded as     *)
(* negative integers: None (undefined / missing / empty string), NaN and   *)
(* Null (a JSON null read back from a document).                           *)
(***************************************************************************)
EXTENDS Integers, Sequences, FiniteSets, TLC

\* ------------------------------------------------------------------ bounds
MaxPid == 1
MaxClock == 4
ClockStep == 500
MaxCompleted == 2
MaxRepoLen == 2
MaxFlaky == 1
MaxChartLen == 3

\* ------------------------------------------------------- program constants
COLLECTION_INTERVAL_MS == 1000
DEFAULT_FREQUENCY_MS == 5000
DEFAULT_PROC_TRACE_CHART_MAX_COUNT == 100

\* The clock: Date.now() when the job starts, and the last time modelled
JobStart == 2 * ClockStep
MaxNow == JobStart + MaxClock * ClockStep

\* --------------------------------------------------- JavaScript value model
None == -1
NaN == -2
Null == -3

Max(a, b) == IF a >= b THEN a ELSE b

\* x || 0 on a number: undefined, NaN and 0 all give 0
OrZero(x) == IF x = None \/ x = NaN \/ x = Null THEN 0 ELSE x

\* s || dflt on a string: the empty string gives the default
OrStr(s, dflt) == IF s = "" THEN dflt ELSE s

\* a - b on numbers: NaN is absorbing
JsSub(a, b) == IF a = NaN \/ b = NaN THEN NaN ELSE a - b

\* Math.max(a, b): NaN is absorbing
JsMax(a, b) == IF a = NaN \/ b = NaN THEN NaN ELSE Max(a, b)

\* new Date(s).getTime(): a valid date string is the time it denotes, an
\* unparseable one is NaN.  BadDate stands for an unparseable string.
BadDate == -4
DateGetTime(s) == IF s = BadDate THEN NaN ELSE s

\* ------------------------------------------------------------ the provider
Pids == 0..MaxPid

\* What si.processes() may report about one process, apart from its pid.
Profiles ==
  { [name |-> "",  command |-> "",   params |-> "",   cpu |-> None, mem |-> None, started |-> None],
    [name |-> "a", command |-> "ca", params |-> "-x", cpu |-> 1,    mem |-> 2,    started |-> 500],
    [name |-> "b", command |-> "cb", params |-> "",   cpu |-> 2,    mem |-> 1,    started |-> BadDate] }

Proc(pid, pr) ==
  [pid |-> pid, name |-> pr.name, command |-> pr.command, params |-> pr.params,
   cpu |-> pr.cpu, mem |-> pr.mem, started |-> pr.started]

\* processes.list: the process table, in ascending pid order; pid 0 stands
\* for an entry without a pid.
RECURSIVE ListsFrom(_)
ListsFrom(p) ==
  IF p > MaxPid THEN { <<>> }
  ELSE LET rest == ListsFrom(p + 1)
           prs  == IF p = 0 THEN { CHOOSE pr \in Profiles : pr.name = "a" } ELSE Profiles
       IN rest \cup { <<Proc(p, pr)>> \o l : pr \in prs, l \in rest }

ProcessLists == ListsFrom(0)

\* ---------------------------------------------------------------- state
VARIABLES
  now,                   \* Date.now(): the wall clock shared by all processes
  env,                   \* what the provider may return in this run
  marker,                \* PROC_TRACER_STATE_FILE exists
  procFile,              \* PROC_TRACER_DATA_FILE: the persisted process document
  mainPc,                \* setup phase: "idle", "started", "failed"
  bgPc,                  \* background tracer process: "off", "spawned", "running"
  bgTimers,              \* its pending nextTick / setTimeout callbacks (due times)
  bgInFlight,            \* collectProcesses() calls awaiting si.processes()
  expectedScheduleTime,  \* ProcessBackgroundTracer.expectedScheduleTime
  trackedProcesses,      \* the Map, as the sequence of its values in insertion order
  completedProcesses,    \* ProcessBackgroundTracer.completedProcesses
  bgT0,                  \* the time init() recorded
  bgTicks,               \* number of ticks that have run their finally block
  lastTick,              \* what the last finished tick did and the last snapshot taken
  postPc,                \* finalize phase: "idle", "finished", "reported"
  finishResult,          \* what finish() resolved to
  reportLoaded,          \* report() has called loadData()
  reportProcs,           \* ProcessTracer.completedProcesses after loadData()
  reportResult,          \* what report() resolved to: "none", "null", "content"
  reportFiltered,        \* report(): filteredProcesses
  reportSelected,        \* generateMermaidContent(): processesForChart
  reportChart,           \* the process lines of the Gantt chart
  reportTable            \* the data rows of the table

VARIABLES
  statsPc,               \* stats background collector process: "off", "spawned", "running"
  statsTimers,           \* its pending nextTick / setTimeout callbacks (due times)
  statsInFlight,         \* the collectStats() calls awaiting Promise.all (tick numbers)
  statsPending,          \* the provider calls not settled yet
  statsExpected,         \* StatsBackgroundCollector.expectedScheduleTime
  statCollectTime,       \* StatsBackgroundCollector.statCollectTime
  histograms,            \* the five histograms, by category
  statsFile,             \* STATS_DATA_FILE: the persisted histories
  statsT0,               \* the time init() recorded
  statsStarted,          \* number of ticks started
  statsTicks,            \* number of ticks that have run their finally block
  lastStat               \* time of the last finished tick and the delay it armed

statVars == <<statsPc, statsTimers, statsInFlight, statsPending, statsExpected,
              statCollectTime, histograms, statsFile, statsT0, statsStarted, statsTicks,
              lastStat>>

VARIABLES
  repoPc,                \* a client of ProcessDataRepository: "idle", "saved", "loaded"
  repoData,              \* the state handed to the last save()
  repoSaved,             \* the document is the one that save() wrote
  repoLoaded,            \* what the last load() returned
  statsLoaded            \* how the last StatsDataRepository.load() ended

repoVars == <<repoPc, repoData, repoSaved, repoLoaded, statsLoaded>>

VARIABLES
  chartPc,               \* reportWorkflowMetrics(): 0 not called, k the k-th chart is next,
                         \* then "format" and "done"
  chartData,             \* the metrics for which the stats server returned samples
  charts,                \* cpuLoad, memoryUsage, ...: null or the <picture> element
  chartThrown,           \* a chart-service failure has left getLineGraph / getStackedAreaGraph
  postContentItems       \* the sections of the stats report

chartVars == <<chartPc, chartData, charts, chartThrown, postContentItems>>

VARIABLES
  cfgPc,                 \* the entry points: "off", then "main", "start", "post", "report", "done"
  cfgInputs,             \* the action's inputs as core.getInput() returns them
  cfgConfig,             \* what the last loadMainConfig() / loadPostConfig() returned
  cfgFreq,               \* STATS_FREQ of the spawned stats server
  cfgCompleted,          \* the completed processes the report receives
  cfgRows                \* the rows of the process chart

cfgVars == <<cfgPc, cfgInputs, cfgConfig, cfgFreq, cfgCompleted, cfgRows>>

VARIABLES
  srvPc,                 \* collector.finish(): "off", "idle", then "finished" (true) or "failed"
  srvHistogram,          \* the server's histograms: per category the sample times
  srvStatCollectTime,    \* StatsCollectorServer.statCollectTime
  srvPending,            \* the categories whose fetch of the triggered collection is running
  srvAppended,           \* the categories whose fetch of the triggered collection succeeded
  srvGot                 \* per category the answer to the last GET

srvVars == <<srvPc, srvHistogram, srvStatCollectTime, srvPending, srvAppended, srvGot>>

VARIABLES
  ipPc,                  \* processTracer.ts: "ready", "running" (start() returned),
                         \* "finishing" (finish() awaits its collection), "finished", "skipped"
  ipAlive,               \* the pids of the processes running on the machine
  ipSeen,                \* the pids that have been used
  ipStateFile,           \* PROC_TRACER_STATE_FILE exists
  ipDataFile,            \* PROC_TRACER_DATA_FILE
  ipSameProcess,         \* the module state is the one start() worked on
  ipInterval,            \* collectionInterval is armed
  ipTick,                \* an interval callback awaits si.processes()
  ipTracked,             \* trackedProcesses: the pids in insertion order
  ipCompleted,           \* completedProcesses: the pids of the records
  ipFinished,            \* the module's finished flag
  ipBefore               \* the records of the data file when finish() was called

ipVars == <<ipPc, ipAlive, ipSeen, ipStateFile, ipDataFile, ipSameProcess, ipInterval, ipTick,
            ipTracked, ipCompleted, ipFinished, ipBefore>>

VARIABLES
  clsPc,                 \* the exported functions of the class-based tracer: "off", "ready",
                         \* "started", "finished", "reported"
  clsAlive,              \* the pids of the processes running on the machine
  clsStateFile,          \* PROC_TRACER_STATE_FILE exists
  clsDataFile,           \* what the data repository holds
  clsInstances,          \* the ProcessTracer objects, in the order of their construction
  clsFinishResult,       \* what finish() returned: "none" before, "true", "false"
  clsReportSkipped,      \* report() took the "didn't finish" path
  clsReportResult        \* what report() returned

clsVars == <<clsPc, clsAlive, clsStateFile, clsDataFile, clsInstances, clsFinishResult,
             clsReportSkipped, clsReportResult>>

VARIABLES
  natPc,                 \* NativeProcessTracer: "off", "new", "starting" (start() awaits the
                         \* first snapshot), "running" (start() returned), "stopped"
  natAlive,              \* the pids of the processes running on the machine
  natRunning,            \* this.running
  natStream,             \* this.outputStream is open
  natInterval,           \* this.pollingInterval is armed
  natPrevious,           \* the pids of this.previousProcesses
  natInFlight,           \* the process lists of the getProcessList() calls that have not settled
  natEvents,             \* the events written to the output stream
  natTicks,              \* the interval callbacks so far
  natCalls               \* the calls of start() and stop() that found nothing to do

natVars == <<natPc, natAlive, natRunning, natStream, natInterval, natPrevious, natInFlight,
             natEvents, natTicks, natCalls>>

VARIABLES
  jobPc,                 \* entry/post.ts run(): "off", "ready", "attempt" (findCurrentJob()
                         \* awaits a page), "waiting" (the retry timer), "decided", "done"
  jobI,                  \* the loop counter of getCurrentJob()
  jobPage,               \* the loop counter of findCurrentJob()
  jobAttempts,           \* the calls of findCurrentJob() so far
  jobThrown,             \* a page request has failed
  jobResult,             \* what getCurrentJob() returned: "none" yet, "job", "null"
  jobFinishCalls,        \* the finish() calls of run()
  jobReportCalls         \* the report() calls of run()

jobVars == <<jobPc, jobI, jobPage, jobAttempts, jobThrown, jobResult, jobFinishCalls,
             jobReportCalls>>

\* the state of the other variants of the tracers and of the finalize phase
extVars == <<chartVars, cfgVars, srvVars, ipVars, clsVars, natVars, jobVars>>
\* ... and what an action of one of them leaves alone
exceptChart == <<cfgVars, srvVars, ipVars, clsVars, natVars, jobVars>>
exceptCfg == <<chartVars, srvVars, ipVars, clsVars, natVars, jobVars>>
exceptSrv == <<chartVars, cfgVars, ipVars, clsVars, natVars, jobVars>>
exceptIp == <<chartVars, cfgVars, srvVars, clsVars, natVars, jobVars>>
exceptCls == <<chartVars, cfgVars, srvVars, ipVars, natVars, jobVars>>
exceptNat == <<chartVars, cfgVars, srvVars, ipVars, clsVars, jobVars>>
exceptJob == <<chartVars, cfgVars, srvVars, ipVars, clsVars, natVars>>

procVars == <<marker, procFile, mainPc, bgPc, bgTimers, bgInFlight, expectedScheduleTime,
              trackedProcesses, completedProcesses, bgT0, bgTicks, lastTick>>
postVars == <<postPc, finishResult, reportLoaded, reportProcs, reportResult, reportFiltered,
              reportSelected, reportChart, reportTable>>

\* ------------------------------------------------- the snapshot differencer
HasPid(trk, pid) == \E i \in DOMAIN trk : trk[i].pid = pid

\* backgroundTracer.ts 41-49: the entry made for a pid seen for the first time
NewTracked(proc, t) ==
  [pid     |-> proc.pid,
   name    |-> OrStr(proc.name, "unknown"),
   command |-> OrStr(proc.command, ""),
   params  |-> OrStr(proc.params, ""),
   started |-> IF proc.started # None THEN DateGetTime(proc.started) ELSE t,
   pcpu    |-> OrZero(proc.cpu),
   pmem    |-> OrZero(proc.mem)]

\* Faulty variant of UpdatePeaks: a pid seen again also takes the name, the
\* command line and the start time that the provider reports now.
UpdatePeaksAndIdentity(tracked, proc) ==
  [tracked EXCEPT !.pcpu = JsMax(@, OrZero(proc.cpu)),
                  !.pmem = JsMax(@, OrZero(proc.mem)),
                  !.name = OrStr(proc.name, "unknown"),
                  !.command = OrStr(proc.command, ""),
                  !.params = OrStr(proc.params, ""),
                  !.started = IF proc.started # None THEN DateGetTime(proc.started) ELSE @]

\* Faulty variant of UpdatePeaks: the latest reading overwrites the peak.
UpdatePeaksLatest(tracked, proc) ==
  [tracked EXCEPT !.pcpu = OrZero(proc.cpu), !.pmem = OrZero(proc.mem)]

\* backgroundTracer.ts 36-38: a pid seen again only raises its peaks
UpdatePeaks(tracked, proc) ==
  [tracked EXCEPT !.pcpu = JsMax(@, OrZero(proc.cpu)),
                  !.pmem = JsMax(@, OrZero(proc.mem))]

\* backgroundTracer.ts 29-51: the loop over processes.list
RECURSIVE UpdateTracked(_, _, _)
UpdateTracked(trk, list, t) ==
  IF list = <<>> THEN trk
  ELSE LET proc == Head(list) IN
       IF proc.pid = 0 THEN UpdateTracked(trk, Tail(list), t)
       ELSE IF HasPid(trk, proc.pid)
       THEN UpdateTracked([i \in DOMAIN trk |->
                             IF trk[i].pid = proc.pid THEN UpdatePeaks(trk[i], proc)
                                                      ELSE trk[i]],
                          Tail(list), t)
       ELSE UpdateTracked(Append(trk, NewTracked(proc, t)), Tail(list), t)

\* currentPids after the loop
CurrentPids(list) == { list[i].pid : i \in DOMAIN list } \ {0}

\* Faulty variant of Complete: the duration is measured from the first snapshot
\* of the run instead of from the process's start.
CompleteSinceInit(tracked, t) ==
  [pid      |-> tracked.pid,
   name     |-> tracked.name,
   command  |-> tracked.command,
   params   |-> tracked.params,
   started  |-> tracked.started,
   ended    |-> t,
   duration |-> t,
   maxCpu   |-> tracked.pcpu,
   maxMem   |-> tracked.pmem]

\* backgroundTracer.ts 56-66: the record pushed for a tracked process that is gone
Complete(tracked, t) ==
  [pid      |-> tracked.pid,
   name     |-> tracked.name,
   command  |-> tracked.command,
   params   |-> tracked.params,
   started  |-> tracked.started,
   ended    |-> t,
   duration |-> JsSub(t, tracked.started),
   maxCpu   |-> tracked.pcpu,
   maxMem   |-> tracked.pmem]

InPids(r, pids) == r.pid \in pids

\* Faulty variant of StillTracked: the completed entries are not deleted.
StillTrackedAll(trk, pids) == trk

\* Faulty variant of StillTracked: the second loop empties the Map.
StillTrackedNone(trk, pids) == <<>>

\* backgroundTracer.ts 54-69: what the second loop keeps in the Map ...
StillTracked(trk, pids) == SelectSeq(trk, LAMBDA r : InPids(r, pids))

\* ... and what it pushes to completedProcesses, in the Map's order
NewlyCompleted(trk, pids, t) ==
  LET gone == SelectSeq(trk, LAMBDA r : ~InPids(r, pids))
  IN IF gone = <<>> THEN <<>> ELSE [i \in 1..Len(gone) |-> Complete(gone[i], t)]

\* ------------------------------------------------- the persisted document
JNum(n) == IF n = NaN THEN [t |-> "null", n |-> 0, s |-> ""]
                      ELSE [t |-> "num",  n |-> n, s |-> ""]
JStr(str) == [t |-> "str", n |-> 0, s |-> str]
ParseNum(j) == IF j.t = "null" THEN Null ELSE j.n
ParseStr(j) == j.s

StringifyTracked(r) ==
  [pid |-> JNum(r.pid), name |-> JStr(r.name), command |-> JStr(r.command),
   params |-> JStr(r.params), started |-> JNum(r.started),
   pcpu |-> JNum(r.pcpu), pmem |-> JNum(r.pmem)]

StringifyCompleted(r) ==
  [pid |-> JNum(r.pid), name |-> JStr(r.name), command |-> JStr(r.command),
   params |-> JStr(r.params), started |-> JNum(r.started), ended |-> JNum(r.ended),
   duration |-> JNum(r.duration), maxCpu |-> JNum(r.maxCpu), maxMem |-> JNum(r.maxMem)]

ParseTracked(j) ==
  [pid |-> ParseNum(j.pid), name |-> ParseStr(j.name), command |-> ParseStr(j.command),
   params |-> ParseStr(j.params), started |-> ParseNum(j.started),
   pcpu |-> ParseNum(j.pcpu), pmem |-> ParseNum(j.pmem)]

ParseCompleted(j) ==
  [pid |-> ParseNum(j.pid), name |-> ParseStr(j.name), command |-> ParseStr(j.command),
   params |-> ParseStr(j.params), started |-> ParseNum(j.started), ended |-> ParseNum(j.ended),
   duration |-> ParseNum(j.duration), maxCpu |-> ParseNum(j.maxCpu), maxMem |-> ParseNum(j.maxMem)]

MapSeq(Op(_), seq) == IF seq = <<>> THEN <<>> ELSE [i \in 1..Len(seq) |-> Op(seq[i])]

\* JSON.stringify(data, null, 2) of {completed, tracked}
Stringify(data) ==
  [kind      |-> "json",
   completed |-> MapSeq(StringifyCompleted, data.completed),
   tracked   |-> MapSeq(StringifyTracked, data.tracked)]

NoFile == [kind |-> "none", completed |-> <<>>, tracked |-> <<>>]
CorruptFile == [kind |-> "corrupt", completed |-> <<>>, tracked |-> <<>>]
EmptyData == [completed |-> <<>>, tracked |-> <<>>]

\* Faulty variant of Load: only the completed list is read back.
LoadCompletedOnly(file) ==
  IF file.kind = "json"
  THEN [completed |-> MapSeq(ParseCompleted, file.completed), tracked |-> <<>>]
  ELSE EmptyData

\* ProcessDataRepository.load(): existsSync, readFileSync, JSON.parse
Load(file) ==
  IF file.kind = "json"
  THEN [completed |-> MapSeq(ParseCompleted, file.completed),
        tracked   |-> MapSeq(ParseTracked, file.tracked)]
  ELSE EmptyData

\* Faulty variant of Save: the completed records are added to those the document
\* already holds.
SaveAppends(file, data, ok) ==
  IF ~ok THEN file
  ELSE IF file.kind = "json"
       THEN [Stringify(data) EXCEPT !.completed = file.completed \o @]
       ELSE Stringify(data)

\* ProcessDataRepository.save(data): writeFileSync either replaces the document
\* or throws, and the error is logged
Save(file, data, ok) == IF ok THEN Stringify(data) ELSE file

\* processDataRepository.ts 26-40: how many completed records load() finds
DocCompleted(file) == IF file.kind = "json" THEN Len(file.completed) ELSE 0

\* ------------------------------------------------------- initial states
\* lastTick: outcome and time of the last finished tick and the delay it armed the
\* timer with; time and list of the last snapshot taken; whether its save succeeded
NoTick == [outcome |-> "none", at |-> 0, delay |-> 0, seen |-> 0, list |-> <<>>, saved |-> FALSE,
           unsaved |-> 0]

ProcInit ==
  /\ marker = FALSE
  /\ procFile = NoFile
  /\ bgPc = "off"
  /\ bgTimers = <<>>
  /\ bgInFlight = 0
  /\ expectedScheduleTime = 0
  /\ trackedProcesses = <<>>
  /\ completedProcesses = <<>>
  /\ bgT0 = 0
  /\ bgTicks = 0
  /\ lastTick = NoTick

PostInit ==
  /\ postPc = "idle"
  /\ finishResult = FALSE
  /\ reportLoaded = FALSE
  /\ reportProcs = <<>>
  /\ reportResult = "none"
  /\ reportFiltered = <<>>
  /\ reportSelected = <<>>
  /\ reportChart = <<>>
  /\ reportTable = <<>>

\* ------------------------------------------------------------- the clock
Advance ==
  /\ mainPc # "idle"
  /\ now + ClockStep <= env.horizon
  /\ now' = now + ClockStep
  /\ UNCHANGED <<env, procVars, postVars, statVars, repoVars, extVars>>

\* ------------------------------------- setup phase: ProcessTracer.start()
\* tracer.ts 32-56: the marker is written, then the background process spawned
Start ==
  /\ mainPc = "idle"
  /\ marker' = TRUE
  /\ mainPc' = "started"
  /\ bgPc' = "spawned"
  /\ UNCHANGED <<now, env, procFile, bgTimers, bgInFlight, expectedScheduleTime,
                 trackedProcesses, completedProcesses, bgT0, bgTicks, lastTick, postVars, statVars, repoVars, extVars>>

\* tracer.ts 51-55: writeFileSync or spawn throws; start() resolves to false
StartFail ==
  /\ mainPc = "idle"
  /\ \E wrote \in BOOLEAN : marker' = wrote
  /\ mainPc' = "failed"
  /\ UNCHANGED <<now, env, procFile, bgPc, bgTimers, bgInFlight, expectedScheduleTime,
                 trackedProcesses, completedProcesses, bgT0, bgTicks, lastTick, postVars, statVars, repoVars, extVars>>

\* ------------------------------------------ the background tracer process
\* setTimeout(cb, d): Node runs cb no earlier than max(1, d) ms from now
TimeoutDelay(d) == IF d < 1 THEN 1 ELSE d

\* backgroundTracer.ts 98-105: init()
BgInit ==
  /\ bgPc = "spawned"
  /\ bgPc' = "running"
  /\ expectedScheduleTime' = now
  /\ bgT0' = now
  /\ bgTimers' = Append(bgTimers, now)
  /\ UNCHANGED <<now, env, marker, procFile, mainPc, bgInFlight, trackedProcesses,
                 completedProcesses, bgTicks, lastTick, postVars, statVars, repoVars, extVars>>

RemoveAt(seq, i) == [j \in 1..(Len(seq) - 1) |-> IF j < i THEN seq[j] ELSE seq[j + 1]]

\* Faulty variant of ProcTickStart: the callback re-arms the timer before it
\* does its work, as a periodic timer would.
ProcTickStartRearms ==
  /\ bgPc = "running"
  /\ \E i \in DOMAIN bgTimers :
       /\ bgTimers[i] <= now
       /\ bgTimers' = Append(RemoveAt(bgTimers, i), now + COLLECTION_INTERVAL_MS)
  /\ bgInFlight' = bgInFlight + 1
  /\ UNCHANGED <<now, env, marker, procFile, mainPc, bgPc, expectedScheduleTime,
                 trackedProcesses, completedProcesses, bgT0, bgTicks, lastTick, postVars,
                 statVars, repoVars, extVars>>

\* backgroundTracer.ts 22-24: a due callback runs collectProcesses(), which calls
\* si.processes() and suspends at the await
ProcTickStart ==
  /\ bgPc = "running"
  /\ \E i \in DOMAIN bgTimers :
       /\ bgTimers[i] <= now
       /\ bgTimers' = RemoveAt(bgTimers, i)
  /\ bgInFlight' = bgInFlight + 1
  /\ UNCHANGED <<now, env, marker, procFile, mainPc, bgPc, expectedScheduleTime,
                 trackedProcesses, completedProcesses, bgT0, bgTicks, lastTick, postVars, statVars, repoVars, extVars>>

\* Faulty variant of ScheduleNext: deadlines that have passed while the tick
\* ran are skipped, the next deadline being the first one after the tick's end.
ScheduleNextSkipsAhead(expected, t) ==
  IF expected + COLLECTION_INTERVAL_MS > t
  THEN expected + COLLECTION_INTERVAL_MS
  ELSE expected + ((t - expected) \div COLLECTION_INTERVAL_MS + 1) * COLLECTION_INTERVAL_MS

\* Faulty variant of ScheduleNext: the next deadline is taken from the time the
\* tick finished, so the work of every tick is added to the schedule.
ScheduleNextFromNow(expected, t) == t + COLLECTION_INTERVAL_MS

\* backgroundTracer.ts 75-83: the finally block
ScheduleNext(expected, t) == expected + COLLECTION_INTERVAL_MS

\* Faulty variant of ArmedTimers: the timer is armed with the full interval,
\* counted from the end of the tick.
ArmedTimersFullWait(timers, expected, t) == Append(timers, t + COLLECTION_INTERVAL_MS)

\* backgroundTracer.ts 79-82: setTimeout(..., expectedScheduleTime - Date.now())
ArmedTimers(timers, expected, t) == Append(timers, t + TimeoutDelay(expected - t))

\* Faulty variant of PushAll: a record replaces the earlier record of the same
\* pid instead of being added to the list.
PushAllMerged(completed, done) ==
  SelectSeq(completed, LAMBDA c : \A i \in DOMAIN done : done[i].pid # c.pid) \o done

\* Faulty variant of PushAll: the new records are put in front of the list.
PushAllInFront(completed, done) == done \o completed

\* backgroundTracer.ts 56-66: completedProcesses.push(...) for each process gone
PushAll(completed, done) == completed \o done

\* backgroundTracer.ts 24-83: si.processes() resolves; the rest of the tick is
\* synchronous: diff, saveData(), finally
ProcTickOk ==
  /\ bgPc = "running"
  /\ bgInFlight > 0
  /\ \E list \in env.tables, saveOk \in BOOLEAN :
       LET upd  == UpdateTracked(trackedProcesses, list, now)
           cur  == CurrentPids(list)
           done == NewlyCompleted(upd, cur, now)
           next == ScheduleNext(expectedScheduleTime, now)
       IN /\ Len(completedProcesses) + Len(done) <= MaxCompleted
          /\ trackedProcesses' = StillTracked(upd, cur)
          /\ completedProcesses' = PushAll(completedProcesses, done)
          /\ procFile' = Save(procFile,
                              [completed |-> completedProcesses',
                               tracked   |-> trackedProcesses'], saveOk)
          /\ expectedScheduleTime' = next
          /\ bgTimers' = ArmedTimers(bgTimers, next, now)
          /\ lastTick' = [outcome |-> "ok", at |-> now, delay |-> next - now,
                          seen |-> now, list |-> list, saved |-> saveOk,
                          unsaved |-> Len(completedProcesses) - DocCompleted(procFile)]
  /\ bgInFlight' = bgInFlight - 1
  /\ bgTicks' = bgTicks + 1
  /\ UNCHANGED <<now, env, marker, mainPc, bgPc, bgT0, postVars, statVars, repoVars, extVars>>

\* Faulty variant of ProcTickFail: the timer is re-armed in the try block only,
\* so a failing tick ends the loop.
ProcTickFailStops ==
  /\ bgPc = "running"
  /\ bgInFlight > 0
  /\ lastTick' = [lastTick EXCEPT !.outcome = "failed", !.at = now, !.delay = 0]
  /\ bgInFlight' = bgInFlight - 1
  /\ bgTicks' = bgTicks + 1
  /\ UNCHANGED <<now, env, marker, procFile, mainPc, bgPc, bgTimers, expectedScheduleTime,
                 trackedProcesses, completedProcesses, bgT0, postVars, statVars, repoVars, extVars>>

\* Faulty variant of ProcTickFail: a tick whose provider call failed takes the
\* snapshot for empty, completing every tracked process and saving.
ProcTickFailFlushes ==
  /\ bgPc = "running"
  /\ bgInFlight > 0
  /\ LET next == ScheduleNext(expectedScheduleTime, now)
         done == NewlyCompleted(trackedProcesses, {}, now)
     IN /\ Len(completedProcesses) + Len(done) <= MaxCompleted
        /\ trackedProcesses' = <<>>
        /\ completedProcesses' = PushAll(completedProcesses, done)
        /\ procFile' = Save(procFile, [completed |-> completedProcesses',
                                       tracked   |-> trackedProcesses'], TRUE)
        /\ expectedScheduleTime' = next
        /\ bgTimers' = ArmedTimers(bgTimers, next, now)
        /\ lastTick' = [lastTick EXCEPT !.outcome = "failed", !.at = now,
                                         !.delay = next - now]
  /\ bgInFlight' = bgInFlight - 1
  /\ bgTicks' = bgTicks + 1
  /\ UNCHANGED <<now, env, marker, mainPc, bgPc, bgT0, postVars, statVars, repoVars, extVars>>

\* backgroundTracer.ts 73-83: si.processes() rejects; catch logs, finally re-arms
ProcTickFail ==
  /\ bgPc = "running"
  /\ bgInFlight > 0
  /\ LET next == ScheduleNext(expectedScheduleTime, now)
     IN /\ expectedScheduleTime' = next
        /\ bgTimers' = ArmedTimers(bgTimers, next, now)
        /\ lastTick' = [lastTick EXCEPT !.outcome = "failed", !.at = now,
                                         !.delay = next - now]
  /\ bgInFlight' = bgInFlight - 1
  /\ bgTicks' = bgTicks + 1
  /\ UNCHANGED <<now, env, marker, procFile, mainPc, bgPc, trackedProcesses,
                 completedProcesses, bgT0, postVars, statVars, repoVars, extVars>>

\* ------------------------------------------------------- finalize phase
\* Faulty variant of FinishResult: the marker is not consulted.
FinishResultAlways(exists) == TRUE

\* tracer.ts 61-71: what finish() returns, given fs.existsSync(PROC_TRACER_STATE_FILE)
FinishResult(exists) == exists

\* Faulty variant of Finish: the finalize phase rewrites the document.
FinishRewrites ==
  /\ mainPc # "idle"
  /\ postPc = "idle"
  /\ postPc' = "finished"
  /\ finishResult' = FinishResult(marker)
  /\ procFile' = IF marker THEN Stringify(EmptyData) ELSE procFile
  /\ UNCHANGED <<now, env, marker, mainPc, bgPc, bgTimers, bgInFlight, expectedScheduleTime,
                 trackedProcesses, completedProcesses, bgT0, bgTicks, lastTick, statVars,
                 reportLoaded, reportProcs, reportResult, reportFiltered, reportSelected,
                 reportChart, reportTable, repoVars, extVars>>

\* tracer.ts 58-77: ProcessTracer.finish()
Finish ==
  /\ mainPc # "idle"
  /\ postPc = "idle"
  /\ postPc' = "finished"
  /\ finishResult' = FinishResult(marker)
  /\ UNCHANGED <<now, env, procVars, statVars, reportLoaded, reportProcs, reportResult,
                 reportFiltered, reportSelected, reportChart, reportTable, repoVars, extVars>>

\* ------------------------------------------------- the report generators
\* ToNumber in a comparison or subtraction: null counts as 0
Num(x) == IF x = Null THEN 0 ELSE x

\* Array.prototype.sort with a comparator that subtracts keys: ascending by key,
\* elements with equal keys keep their order (the sort is stable)
StableSort(seq, key) ==
  LET n == Len(seq)
      rank(i) == Cardinality({ j \in 1..n : key[j] < key[i] \/ (key[j] = key[i] /\ j < i) }) + 1
  IN [p \in 1..n |-> seq[CHOOSE i \in 1..n : rank(i) = p]]

\* chartGenerator.ts 37: sort((a, b) => -(a.duration - b.duration))
SortByDurationDesc(seq) == StableSort(seq, [i \in 1..Len(seq) |-> -Num(seq[i].duration)])

\* Faulty variant of SortByStarted: the selection is left in duration order.
SortByStartedOmitted(seq) == seq

\* chartGenerator.ts 39: sort((a, b) => a.started - b.started)
SortByStarted(seq) == StableSort(seq, [i \in 1..Len(seq) |-> Num(seq[i].started)])

\* Array.prototype.slice(0, end): a negative end counts from the end of the array
SliceTo(seq, end) ==
  LET n == Len(seq)
      k == IF end < 0 THEN Max(n + end, 0) ELSE IF end > n THEN n ELSE end
  IN SubSeq(seq, 1, k)

\* Faulty variant of selectTopProcessesByDuration: the first maxCount processes
\* of the list are taken, whatever their durations.
SelectFirstProcesses(processes, maxCount) == SortByStarted(SliceTo(processes, maxCount))

\* chartGenerator.ts 32-40: selectTopProcessesByDuration
selectTopProcessesByDuration(processes, maxCount) ==
  SortByStarted(SliceTo(SortByDurationDesc(processes), maxCount))

\* chartGenerator.ts 17-29: generateProcessLine; the names of the model hold no
\* colon to escape and none is "node"
generateProcessLine(proc) == [label |-> proc.name, start |-> proc.started, finish |-> proc.ended]

\* chartGenerator.ts 53: one line per process of the selection
ProcessLines(selected) ==
  IF selected = <<>> THEN <<>>
  ELSE [i \in 1..Len(selected) |-> generateProcessLine(selected[i])]

\* tableGenerator.ts 42-52: formatDataRow
formatDataRow(proc) ==
  [name |-> proc.name, pid |-> proc.pid, started |-> proc.started, duration |-> proc.duration,
   maxCpu |-> proc.maxCpu, maxMem |-> proc.maxMem, commandParams |-> <<proc.command, proc.params>>]

\* tableGenerator.ts 54-62: the rows after the header, one per process
TableRows(processes) ==
  IF processes = <<>> THEN <<>>
  ELSE [i \in 1..Len(processes) |-> formatDataRow(processes[i])]

AtLeast(proc, minDuration) == Num(proc.duration) >= minDuration

\* Faulty variant of FilterByMinDuration: a process that lasted exactly
\* minDuration is excluded too.
FilterAboveMinDuration(processes, minDuration) ==
  IF minDuration > 0
  THEN SelectSeq(processes, LAMBDA proc : Num(proc.duration) > minDuration)
  ELSE processes

\* tracer.ts 101-107: the filter by minimum duration
FilterByMinDuration(processes, minDuration) ==
  IF minDuration > 0
  THEN SelectSeq(processes, LAMBDA proc : AtLeast(proc, minDuration))
  ELSE processes

\* Faulty variant of ReportCatch: no catch block, the exception leaves report().
ReportNoCatch(ok) == IF ok THEN "content" ELSE "threw"

\* tracer.ts 116-125: report() returns the content, or null from the catch block
\* when a generator or the formatter threw
ReportCatch(ok) == IF ok THEN "content" ELSE "null"

\* tracer.ts 79-126: ProcessTracer.report(); generating the content may throw
\* processDataRepository.ts 28-33 against backgroundTracer.ts 86-96: the
\* background tracer is another process, and its writeFileSync() truncates the
\* document and then writes it, with no lock and no rename.  A readFileSync()
\* that falls into a write of the tick in flight gets an empty or cut-off text,
\* which JSON.parse rejects; otherwise it gets the document as last written.
TornReads == IF bgPc = "running" /\ bgInFlight > 0 THEN BOOLEAN ELSE {FALSE}
ReadFile(file, torn) == IF torn THEN CorruptFile ELSE file

Report ==
  /\ postPc = "finished"
  /\ postPc' = "reported"
  /\ IF ~marker
     THEN /\ reportResult' = "null"
          /\ UNCHANGED <<reportLoaded, reportProcs, reportFiltered, reportSelected,
                         reportChart, reportTable>>
     ELSE /\ reportLoaded' = TRUE
          /\ \E torn \in TornReads : reportProcs' = Load(ReadFile(procFile, torn)).completed
          /\ IF Len(reportProcs') = 0
             THEN /\ reportResult' = "null"
                  /\ UNCHANGED <<reportFiltered, reportSelected, reportChart, reportTable>>
             ELSE \E ok \in BOOLEAN :
                    LET config   == env.config
                        filtered == FilterByMinDuration(reportProcs', config.minDuration)
                        selected == IF config.chartShow
                                    THEN selectTopProcessesByDuration(filtered, config.chartMaxCount)
                                    ELSE <<>>
                    IN /\ reportFiltered' = filtered
                       /\ reportSelected' = selected
                       /\ reportChart' = ProcessLines(selected)
                       /\ reportTable' = IF config.tableShow THEN TableRows(filtered) ELSE <<>>
                       /\ reportResult' = ReportCatch(ok)
  /\ UNCHANGED <<now, env, procVars, statVars, finishResult, repoVars, extVars>>

\* ------------------------------------------ the stats background collector
Cats == {"cpu", "memory", "network", "disk", "diskSize"}

\* lastStat: time of the last finished tick and the delay it armed the timer with;
\* of the last started tick, its time, the interval it computed, the lengths the
\* histograms had and the categories whose provider call has failed
NoStat == [at |-> 0, delay |-> 0, began |-> 0, interval |-> 0,
           base |-> [c \in Cats |-> 0], failed |-> {}]

StatsInitState ==
  /\ statsTimers = <<>>
  /\ statsInFlight = {}
  /\ statsPending = {}
  /\ statsExpected = 0
  /\ statCollectTime = 0
  /\ histograms = [c \in Cats |-> <<>>]
  /\ statsFile = [kind |-> "none", data |-> [c \in Cats |-> <<>>]]
  /\ statsT0 = 0
  /\ statsStarted = 0
  /\ statsTicks = 0
  /\ lastStat = NoStat

\* Faulty variant of Volume: the rate is stored, whatever the interval.
VolumePerSecond(rate, interval) == rate \div 1048576

\* statsDataRepository.ts 139-140, 157-158: Math.floor(rate * (interval / 1000) / 1024 / 1024),
\* in exact arithmetic, with the product taken in two parts to stay within 32-bit
\* integers
Volume(rate, interval) ==
  LET q == rate \div 1048576
      r == rate % 1048576
  IN (q * interval + (r * interval) \div 1048576) \div 1000

\* statsDataRepository.ts 96-180: transform(data, statTime, timeInterval); only
\* the network and disk samples depend on the interval
Transform(cat, rate, statTime, timeInterval) ==
  [time |-> statTime,
   mb   |-> IF cat \in {"network", "disk"} THEN Volume(rate, timeInterval) ELSE 0]

\* statsDataRepository.ts 236-243: init()
StatsInit ==
  /\ statsPc = "spawned"
  /\ statsPc' = "running"
  /\ statsExpected' = now
  /\ statsT0' = now
  /\ statsTimers' = Append(statsTimers, now)
  /\ UNCHANGED <<now, env, procVars, postVars, statsInFlight, statsPending, statCollectTime,
                 histograms, statsFile, statsStarted, statsTicks, lastStat, repoVars, extVars>>

\* statsDataRepository.ts 211-224: a due callback runs collectStats() up to the
\* await: every collector's fetch() is called
StatsTickStart ==
  /\ statsPc = "running"
  /\ \E i \in DOMAIN statsTimers :
       /\ statsTimers[i] <= now
       /\ statsTimers' = RemoveAt(statsTimers, i)
  /\ LET timeInterval == IF statCollectTime # 0 THEN now - statCollectTime ELSE 0
         id == statsStarted + 1
     IN /\ statsPending' = statsPending \cup
             { [tick |-> id, cat |-> c, statTime |-> now, timeInterval |-> timeInterval] :
               c \in Cats }
        /\ statsInFlight' = statsInFlight \cup {id}
        /\ statsStarted' = id
        /\ lastStat' = [lastStat EXCEPT !.began = now, !.interval = timeInterval,
                                         !.base = [c \in Cats |-> Len(histograms[c])],
                                         !.failed = {}]
  /\ statCollectTime' = now
  /\ UNCHANGED <<now, env, procVars, postVars, statsPc, statsExpected, histograms,
                 statsFile, statsT0, statsTicks, repoVars, extVars>>

\* Faulty variant of StatsFetchOk: the sample is stamped with the time at which
\* its provider call resolved.
StatsFetchOkStampsNow ==
  /\ \E f \in statsPending, rate \in env.rates :
       /\ statsPending' = statsPending \ {f}
       /\ histograms' = [histograms EXCEPT ![f.cat] =
                           Append(@, Transform(f.cat, rate, now, f.timeInterval))]
  /\ UNCHANGED <<now, env, procVars, postVars, statsPc, statsTimers, statsInFlight,
                 statsExpected, statCollectTime, statsFile, statsT0, statsStarted,
                 statsTicks, lastStat, repoVars, extVars>>

\* statsDataRepository.ts 187-190: one provider call resolves; its sample is pushed
StatsFetchOk ==
  /\ \E f \in statsPending, rate \in env.rates :
       /\ statsPending' = statsPending \ {f}
       /\ histograms' = [histograms EXCEPT ![f.cat] =
                           Append(@, Transform(f.cat, rate, f.statTime, f.timeInterval))]
  /\ UNCHANGED <<now, env, procVars, postVars, statsPc, statsTimers, statsInFlight,
                 statsExpected, statCollectTime, statsFile, statsT0, statsStarted,
                 statsTicks, lastStat, repoVars, extVars>>

StatsArmedTimers(timers, expected, t) == Append(timers, t + TimeoutDelay(expected - t))

\* Faulty variant of StatsFetchFail: the rejection is not caught per category, so
\* Promise.all rejects and collectStats() goes to its finally block at once.
StatsFetchFailAborts ==
  /\ \E f \in statsPending :
       /\ f.cat \in env.flaky
       /\ statsPending' = statsPending \ {f}
       /\ lastStat' = [lastStat EXCEPT !.failed = @ \cup {f.cat}, !.at = now,
                                        !.delay = statsExpected + env.statFreq - now]
       /\ statsInFlight' = statsInFlight \ {f.tick}
       /\ IF f.tick \in statsInFlight
          THEN /\ statsExpected' = statsExpected + env.statFreq
               /\ statsTimers' = StatsArmedTimers(statsTimers, statsExpected', now)
               /\ statsTicks' = statsTicks + 1
          ELSE UNCHANGED <<statsExpected, statsTimers, statsTicks>>
  /\ UNCHANGED <<now, env, procVars, postVars, statsPc, statCollectTime, histograms,
                 statsFile, statsT0, statsStarted, repoVars, extVars>>

\* statsDataRepository.ts 184-193: fetch() rejects or transform() throws; the catch
\* block logs the error and the collector's promise resolves
StatsFetchFail ==
  /\ \E f \in statsPending :
       /\ f.cat \in env.flaky
       /\ statsPending' = statsPending \ {f}
       /\ lastStat' = [lastStat EXCEPT !.failed = @ \cup {f.cat}]
  /\ UNCHANGED <<now, env, procVars, postVars, statsPc, statsTimers, statsInFlight,
                 statsExpected, statCollectTime, histograms, statsFile, statsT0,
                 statsStarted, statsTicks, repoVars, extVars>>

\* Faulty variant of StatsTickEnd: the provider calls are not awaited.
StatsTickEndNoAwait ==
  /\ \E id \in statsInFlight, saveOk \in BOOLEAN :
       /\ statsInFlight' = statsInFlight \ {id}
       /\ statsFile' = IF saveOk THEN [kind |-> "json", data |-> histograms] ELSE statsFile
  /\ statsExpected' = statsExpected + env.statFreq
  /\ statsTimers' = StatsArmedTimers(statsTimers, statsExpected', now)
  /\ statsTicks' = statsTicks + 1
  /\ lastStat' = [lastStat EXCEPT !.at = now, !.delay = statsExpected' - now]
  /\ UNCHANGED <<now, env, procVars, postVars, statsPc, statsPending, statCollectTime,
                 histograms, statsT0, statsStarted, repoVars, extVars>>

\* statsDataRepository.ts 224-233: Promise.all resolves once every call of the
\* tick has settled; saveData(), then the finally block
StatsTickEnd ==
  /\ \E id \in statsInFlight, saveOk \in BOOLEAN :
       /\ \A f \in statsPending : f.tick # id
       /\ statsInFlight' = statsInFlight \ {id}
       /\ statsFile' = IF saveOk THEN [kind |-> "json", data |-> histograms] ELSE statsFile
  /\ statsExpected' = statsExpected + env.statFreq
  /\ statsTimers' = StatsArmedTimers(statsTimers, statsExpected', now)
  /\ statsTicks' = statsTicks + 1
  /\ lastStat' = [lastStat EXCEPT !.at = now, !.delay = statsExpected' - now]
  /\ UNCHANGED <<now, env, procVars, postVars, statsPc, statsPending, statCollectTime,
                 histograms, statsT0, statsStarted, repoVars, extVars>>

\* ------------------------------------------------ the stats data repository
\* The outcome of a call: it threw, or it returned null, or it returned data.
NullStats == [threw |-> FALSE, null |-> TRUE, data |-> [c \in Cats |-> <<>>]]
Thrown == [threw |-> TRUE, null |-> FALSE, data |-> [c \in Cats |-> <<>>]]

\* statsDataRepository.ts 27-33: the try block of load(); JSON.parse throws a
\* SyntaxError on a document that is not JSON
StatsLoadTry(file) ==
  IF file.kind = "none" THEN NullStats
  ELSE IF file.kind = "json" THEN [threw |-> FALSE, null |-> FALSE, data |-> file.data]
  ELSE Thrown

\* Faulty variant of StatsLoad: no catch block.
StatsLoadNoCatch(file) == StatsLoadTry(file)

\* statsDataRepository.ts 25-38: load(); the catch block logs and returns null
StatsLoad(file) ==
  LET r == StatsLoadTry(file) IN IF r.threw THEN NullStats ELSE r

\* ------------------------------------------------------- the stats report
\* chartGenerator.ts 20-31: the themes a chart is rendered for
Themes == {"light", "dark"}

\* collector.ts 56-162: the charts of the report, in the order they are made,
\* and the metric each one draws
ChartNames == <<"cpuLoad", "memoryUsage", "networkIORead", "networkIOWrite",
                "diskIORead", "diskIOWrite", "diskSizeUsage">>
MetricOf(chart) ==
  CASE chart = "cpuLoad" -> "cpu"
    [] chart = "memoryUsage" -> "memory"
    [] chart \in {"networkIORead", "networkIOWrite"} -> "network"
    [] chart \in {"diskIORead", "diskIOWrite"} -> "disk"
    [] OTHER -> "diskSize"

\* chartGenerator.ts 124-139: how the call to the chart service ends for one
\* theme: it answers with success and a url, it answers otherwise, or fetch()
\* or response.json() rejects
CallOutcomes == {"url", "unsuccessful", "rejected"}

\* chartGenerator.ts 124-139: whether a theme's call makes the function reject;
\* the catch block logs the error
ThemeCatch(outcome) == FALSE

\* chartGenerator.ts 133-135: the themes that got a url
ThemeUrls(calls) == { t \in Themes : calls[t] = "url" }

\* a chart that was not made: null
NullChart == [picture |-> FALSE, sources |-> {}, src |-> ""]

\* chartGenerator.ts 33-45: the <picture> element, with a <source> per theme
\* that has a url and an <img> whose src is the light url or ""
generatePictureHTML(urls) ==
  [picture |-> TRUE, sources |-> urls, src |-> IF "light" \in urls THEN "light" ELSE ""]

\* a string is truthy unless it is empty, and a <picture> element never is
Truthy(chart) == chart.picture

\* collector.ts 164-192 (and statsReportFormatter.ts 12-46): the sections
Format(c) ==
  (IF Truthy(c["cpuLoad"]) THEN <<"CPU Metrics">> ELSE <<>>)
  \o (IF Truthy(c["memoryUsage"]) THEN <<"Memory Metrics">> ELSE <<>>)
  \o (IF (Truthy(c["networkIORead"]) /\ Truthy(c["networkIOWrite"]))
          \/ (Truthy(c["diskIORead"]) /\ Truthy(c["diskIOWrite"]))
       THEN <<"IO Metrics">> ELSE <<>>)
  \o (IF Truthy(c["networkIORead"]) /\ Truthy(c["networkIOWrite"])
       THEN <<"Network I/O">> ELSE <<>>)
  \o (IF Truthy(c["diskIORead"]) /\ Truthy(c["diskIOWrite"])
       THEN <<"Disk I/O">> ELSE <<>>)
  \o (IF Truthy(c["diskSizeUsage"]) THEN <<"Disk Size Metrics">> ELSE <<>>)

ChartInit ==
  /\ chartPc = 0
  /\ chartData = {}
  /\ charts = [c \in {ChartNames[k] : k \in DOMAIN ChartNames} |-> NullChart]
  /\ chartThrown = FALSE
  /\ postContentItems = <<>>

\* collector.ts 56-162: the next chart is made, if its metric has samples, by
\* one call to the chart service per theme
GenerateChart ==
  /\ chartPc \in DOMAIN ChartNames
  /\ ~chartThrown
  /\ LET c == ChartNames[chartPc] IN
     IF MetricOf(c) \in chartData
     THEN \E calls \in [Themes -> CallOutcomes] :
            /\ chartThrown' = \E t \in Themes : ThemeCatch(calls[t])
            /\ charts' = IF chartThrown' THEN charts
                         ELSE [charts EXCEPT ![c] = generatePictureHTML(ThemeUrls(calls))]
     ELSE UNCHANGED <<charts, chartThrown>>
  /\ chartPc' = chartPc + 1
  /\ UNCHANGED <<now, env, procVars, postVars, statVars, repoVars, exceptChart, chartData, postContentItems>>

\* collector.ts 164-192: the report is put together
FormatReport ==
  /\ chartPc = Len(ChartNames) + 1
  /\ ~chartThrown
  /\ postContentItems' = Format(charts)
  /\ chartPc' = chartPc + 1
  /\ UNCHANGED <<now, env, procVars, postVars, statVars, repoVars, exceptChart, chartData, charts, chartThrown>>

\* ------------------------------------------------- the configuration loader
\* STATS_FREQ: WORKFLOW_TELEMETRY_STAT_FREQ when it parses to a non-zero number,
\* else the default (statsDataRepository.ts 55-58)
StatFreq(envValue) == IF envValue = None \/ envValue = NaN \/ envValue = 0
                      THEN DEFAULT_FREQUENCY_MS ELSE envValue

\* An input is the string core.getInput() returns, a sequence of characters;
\* a missing input is the empty string.
DigitValue == [c \in {"0", "1", "2", "3"} |-> CASE c = "0" -> 0 [] c = "1" -> 1
                                                [] c = "2" -> 2 [] c = "3" -> 3]

RECURSIVE LeadingDigits(_)
LeadingDigits(s) ==
  IF s = <<>> \/ Head(s) \notin DOMAIN DigitValue THEN <<>>
  ELSE <<Head(s)>> \o LeadingDigits(Tail(s))

RECURSIVE DecimalValue(_)
DecimalValue(digits) ==
  IF digits = <<>> THEN 0
  ELSE 10 * DecimalValue(SubSeq(digits, 1, Len(digits) - 1)) + DigitValue[digits[Len(digits)]]

\* parseInt(): an optional sign, then the leading digits; NaN when there is none
parseInt(s) ==
  LET signed == s /= <<>> /\ Head(s) \in {"-", "+"}
      digits == LeadingDigits(IF signed THEN Tail(s) ELSE s)
  IN IF digits = <<>> THEN NaN
     ELSE IF signed /\ Head(s) = "-" THEN 0 - DecimalValue(digits) ELSE DecimalValue(digits)

\* x * k in floating point
Times(x, k) == IF x = NaN THEN NaN ELSE x * k

\* part_010 7-19 (the numeric fields)
loadMainConfig(inputs) ==
  [minDuration |-> parseInt(inputs.proc_trace_min_duration),
   chartMaxCount |-> parseInt(inputs.proc_trace_chart_max_count),
   metricFrequency |-> Times(parseInt(inputs.metric_frequency), 1000)]

\* part_010 24-43 (the numeric fields)
loadPostConfig(inputs) ==
  [minDuration |-> parseInt(inputs.proc_trace_min_duration),
   chartMaxCount |-> parseInt(inputs.proc_trace_chart_max_count),
   metricFrequency |-> Times(parseInt(inputs.metric_frequency), 1000)]

\* collector.ts 327-339: WORKFLOW_TELEMETRY_STAT_FREQ of the spawned server,
\* None when it is left unset
StatFreqEnv(input) ==
  LET v == parseInt(input)
      metricFrequency == IF input /= <<>> /\ v /= NaN THEN v * 1000 ELSE 0
  IN IF metricFrequency /= 0 THEN metricFrequency ELSE None

\* Array.prototype.slice(0, end): a NaN end counts as 0
ToIntegerOrInfinity(x) == IF x = NaN THEN 0 ELSE x

NoInputs == [proc_trace_min_duration |-> <<>>, proc_trace_chart_max_count |-> <<>>,
             metric_frequency |-> <<>>]
NoConfig == [minDuration |-> None, chartMaxCount |-> None, metricFrequency |-> None]

CfgInit ==
  /\ cfgPc = "off"
  /\ cfgInputs = NoInputs
  /\ cfgConfig = NoConfig
  /\ cfgFreq = None
  /\ cfgCompleted = <<>>
  /\ cfgRows = <<>>

\* entry/main.ts: loadMainConfig()
LoadMainConfig ==
  /\ cfgPc = "main"
  /\ cfgConfig' = loadMainConfig(cfgInputs)
  /\ cfgPc' = "start"
  /\ UNCHANGED <<now, env, procVars, postVars, statVars, repoVars, exceptCfg,
                 cfgInputs, cfgFreq, cfgCompleted, cfgRows>>

\* statCollector.start(): the server is spawned and reads STATS_FREQ
StartCollector ==
  /\ cfgPc = "start"
  /\ cfgFreq' = StatFreq(StatFreqEnv(cfgInputs.metric_frequency))
  /\ cfgPc' = "post"
  /\ UNCHANGED <<now, env, procVars, postVars, statVars, repoVars, exceptCfg,
                 cfgInputs, cfgConfig, cfgCompleted, cfgRows>>

\* entry/post.ts: loadPostConfig()
LoadPostConfig ==
  /\ cfgPc = "post"
  /\ cfgConfig' = loadPostConfig(cfgInputs)
  /\ cfgPc' = "report"
  /\ UNCHANGED <<now, env, procVars, postVars, statVars, repoVars, exceptCfg,
                 cfgInputs, cfgFreq, cfgCompleted, cfgRows>>

\* the process chart of the report: the filter of tracer.ts 103-105, then
\* selectTopProcessesByDuration(filtered, config.chartMaxCount)
SelectChartRows ==
  /\ cfgPc = "report"
  /\ cfgRows' = selectTopProcessesByDuration(
                   FilterByMinDuration(cfgCompleted, cfgConfig.minDuration),
                   ToIntegerOrInfinity(cfgConfig.chartMaxCount))
  /\ cfgPc' = "done"
  /\ UNCHANGED <<now, env, procVars, postVars, statVars, repoVars, exceptCfg,
                 cfgInputs, cfgConfig, cfgFreq, cfgCompleted>>

\* ------------------------------------------------------ the stats server
SrvCats == {"cpu", "memory", "network", "disk", "diskSize"}

\* no GET has been answered yet
NoAnswer == [answered |-> FALSE, body |-> <<>>]

SrvInit ==
  /\ srvPc = "off"
  /\ srvHistogram = [c \in SrvCats |-> <<>>]
  /\ srvStatCollectTime = 0
  /\ srvPending = {}
  /\ srvAppended = {}
  /\ srvGot = [c \in SrvCats |-> NoAnswer]

\* collector.ts finish() -> triggerStatCollect() -> the /collect route ->
\* collectStats(false): the five fetches are started and the array of their
\* promises is returned; awaiting an array does not wait for its members, so
\* the handler answers with the fetches still running. finish() returns false
\* when the server cannot be reached.
SrvFinish ==
  /\ srvPc = "idle"
  /\ \E reached \in BOOLEAN :
       IF reached
       THEN /\ srvStatCollectTime' = now
            /\ srvPending' = SrvCats
            /\ srvPc' = "finished"
       ELSE /\ srvPc' = "failed"
            /\ UNCHANGED <<srvStatCollectTime, srvPending>>
  /\ UNCHANGED <<now, env, procVars, postVars, statVars, repoVars, exceptSrv,
                 srvHistogram, srvAppended, srvGot>>

\* collectStatsForCollector(): one fetch settles; its sample is pushed, or the
\* error is logged
SrvFetchSettles(c) ==
  /\ c \in srvPending
  /\ srvPending' = srvPending \ {c}
  /\ IF c \in env.flaky
     THEN UNCHANGED <<srvHistogram, srvAppended>>
     ELSE /\ srvHistogram' = [srvHistogram EXCEPT ![c] = Append(@, srvStatCollectTime)]
          /\ srvAppended' = srvAppended \cup {c}
  /\ UNCHANGED <<now, env, procVars, postVars, statVars, repoVars, exceptSrv,
                 srvPc, srvStatCollectTime, srvGot>>

\* fetchStats(endpoint) of the report, after finish(): GET /cpu, /memory, ...
SrvGet(c) ==
  /\ srvPc = "finished"
  /\ srvGot' = [srvGot EXCEPT ![c] = [answered |-> TRUE, body |-> srvHistogram[c]]]
  /\ UNCHANGED <<now, env, procVars, postVars, statVars, repoVars, exceptSrv,
                 srvPc, srvHistogram, srvStatCollectTime, srvPending, srvAppended>>

\* ----------------------------------------------- the in-process tracer
IpPids == 1..(MaxPid + 1)

RECURSIVE Ascending(_)
Ascending(S) ==
  IF S = {} THEN <<>>
  ELSE LET m == CHOOSE x \in S : \A y \in S : x <= y IN <<m>> \o Ascending(S \ {m})

\* si.processes(): the process table, pid 0 included
IpSnapshot(alive) == Ascending(alive \cup {0})

\* collectProcesses() 43-95, on the pids: the tracked map afterwards ...
IpCollectTracked(tracked, list) ==
  LET current == { list[i] : i \in DOMAIN list } \ {0}
      known == { tracked[i] : i \in DOMAIN tracked }
  IN SelectSeq(tracked, LAMBDA p : p \in current)
       \o SelectSeq(list, LAMBDA p : p /= 0 /\ p \notin known)

\* ... and the completed list
IpCollectCompleted(tracked, completed, list) ==
  LET current == { list[i] : i \in DOMAIN list } \ {0}
  IN completed \o SelectSeq(tracked, LAMBDA p : p \notin current)

NoDataFile == [exists |-> FALSE, completed |-> <<>>, tracked |-> <<>>]

\* saveData() 97-108
IpSaveData(completed, tracked) == [exists |-> TRUE, completed |-> completed, tracked |-> tracked]

IpInit ==
  /\ ipPc = "off"
  /\ ipAlive = {}
  /\ ipSeen = {}
  /\ ipStateFile = FALSE
  /\ ipDataFile = NoDataFile
  /\ ipSameProcess = TRUE
  /\ ipInterval = FALSE
  /\ ipTick = FALSE
  /\ ipTracked = <<>>
  /\ ipCompleted = <<>>
  /\ ipFinished = FALSE
  /\ ipBefore = <<>>

\* a process is started on the machine, under a pid that was never used
IpSpawn(p) ==
  /\ ipPc \notin {"off"}
  /\ p \notin ipSeen
  /\ ipAlive' = ipAlive \cup {p}
  /\ ipSeen' = ipSeen \cup {p}
  /\ UNCHANGED <<now, env, procVars, postVars, statVars, repoVars, exceptIp,
                 ipPc, ipStateFile, ipDataFile, ipSameProcess, ipInterval, ipTick,
                 ipTracked, ipCompleted, ipFinished, ipBefore>>

\* a process ends
IpExit(p) ==
  /\ p \in ipAlive
  /\ ipAlive' = ipAlive \ {p}
  /\ UNCHANGED <<now, env, procVars, postVars, statVars, repoVars, exceptIp,
                 ipPc, ipSeen, ipStateFile, ipDataFile, ipSameProcess, ipInterval, ipTick,
                 ipTracked, ipCompleted, ipFinished, ipBefore>>

\* start() 145-174: the state file, the first collection (a failure of
\* si.processes() is caught inside collectProcesses), the interval
IpStart ==
  /\ ipPc = "ready"
  /\ ipStateFile' = TRUE
  /\ \E ok \in BOOLEAN :
       IF ok
       THEN /\ ipTracked' = IpCollectTracked(ipTracked, IpSnapshot(ipAlive))
            /\ ipCompleted' = IpCollectCompleted(ipTracked, ipCompleted, IpSnapshot(ipAlive))
       ELSE UNCHANGED <<ipTracked, ipCompleted>>
  /\ ipInterval' = TRUE
  /\ ipPc' = "running"
  /\ UNCHANGED <<now, env, procVars, postVars, statVars, repoVars, exceptIp,
                 ipAlive, ipSeen, ipDataFile, ipSameProcess, ipTick, ipFinished, ipBefore>>

\* the interval fires: the callback calls collectProcesses(), which awaits
\* si.processes()
IpTickStart ==
  /\ ipInterval
  /\ ~ipTick
  /\ ipTick' = TRUE
  /\ UNCHANGED <<now, env, procVars, postVars, statVars, repoVars, exceptIp,
                 ipPc, ipAlive, ipSeen, ipStateFile, ipDataFile, ipSameProcess, ipInterval,
                 ipTracked, ipCompleted, ipFinished, ipBefore>>

\* si.processes() of the callback settles: the rest of collectProcesses(),
\* then saveData() (154-157)
IpTickSettles ==
  /\ ipTick
  /\ ipTick' = FALSE
  /\ \E ok \in BOOLEAN :
       LET tracked == IF ok THEN IpCollectTracked(ipTracked, IpSnapshot(ipAlive))
                      ELSE ipTracked
           completed == IF ok THEN IpCollectCompleted(ipTracked, ipCompleted, IpSnapshot(ipAlive))
                        ELSE ipCompleted
       IN /\ ipTracked' = tracked
          /\ ipCompleted' = completed
          /\ ipDataFile' = IpSaveData(completed, tracked)
  /\ UNCHANGED <<now, env, procVars, postVars, statVars, repoVars, exceptIp,
                 ipPc, ipAlive, ipSeen, ipStateFile, ipSameProcess, ipInterval,
                 ipFinished, ipBefore>>

\* The main step's process ends and the post step runs in a new one: the
\* module state is the initial one (38-41), the files stay. The interval is
\* unref'd and does not keep the process alive.
IpNewProcess ==
  /\ ipPc = "running"
  /\ ipSameProcess
  /\ ipSameProcess' = FALSE
  /\ ipInterval' = FALSE
  /\ ipTick' = FALSE
  /\ ipTracked' = <<>>
  /\ ipCompleted' = <<>>
  /\ ipFinished' = FALSE
  /\ UNCHANGED <<now, env, procVars, postVars, statVars, repoVars, exceptIp,
                 ipPc, ipAlive, ipSeen, ipStateFile, ipDataFile, ipBefore>>

\* finish() 176-196: without the state file it returns false; else the
\* interval is cleared and the final collection awaits si.processes()
IpFinishCall ==
  /\ ipPc \in {"ready", "running"}
  /\ ipBefore' = ipDataFile.completed
  /\ IF ~ipStateFile
     THEN /\ ipPc' = "skipped"
          /\ UNCHANGED ipInterval
     ELSE /\ ipInterval' = FALSE
          /\ ipPc' = "finishing"
  /\ UNCHANGED <<now, env, procVars, postVars, statVars, repoVars, exceptIp,
                 ipAlive, ipSeen, ipStateFile, ipDataFile, ipSameProcess, ipTick,
                 ipTracked, ipCompleted, ipFinished>>

\* finish() 196-219: the final collection settles, what is still tracked is
\* completed, the data is saved and finish() returns true
IpFinishSettles ==
  /\ ipPc = "finishing"
  /\ \E ok \in BOOLEAN :
       LET tracked == IF ok THEN IpCollectTracked(ipTracked, IpSnapshot(ipAlive))
                      ELSE ipTracked
           completed == IF ok THEN IpCollectCompleted(ipTracked, ipCompleted, IpSnapshot(ipAlive))
                        ELSE ipCompleted
       IN /\ ipTracked' = <<>>
          /\ ipCompleted' = completed \o tracked
          /\ ipDataFile' = IpSaveData(completed \o tracked, <<>>)
  /\ ipFinished' = TRUE
  /\ ipPc' = "finished"
  /\ UNCHANGED <<now, env, procVars, postVars, statVars, repoVars, exceptIp,
                 ipAlive, ipSeen, ipStateFile, ipSameProcess, ipInterval, ipTick, ipBefore>>

\* --------------------------------------------- the class-based tracer
\* new ProcessTracer(...): part_005 16-29
NewProcessTracer == [collectionInterval |-> FALSE, trackedProcesses |-> <<>>,
                     completedProcesses |-> <<>>, finished |-> FALSE]

\* collectProcesses() of an instance; a failure of si.processes() is caught
ClsCollect(tracer, alive, ok) ==
  IF ok
  THEN [tracer EXCEPT
          !.trackedProcesses = IpCollectTracked(tracer.trackedProcesses, IpSnapshot(alive)),
          !.completedProcesses = IpCollectCompleted(tracer.trackedProcesses,
                                                    tracer.completedProcesses, IpSnapshot(alive))]
  ELSE tracer

\* what report() returns
NullReport == [null |-> TRUE, completed |-> <<>>]

ClsInit ==
  /\ clsPc = "off"
  /\ clsAlive = {}
  /\ clsStateFile = FALSE
  /\ clsDataFile = NoDataFile
  /\ clsInstances = <<>>
  /\ clsFinishResult = "none"
  /\ clsReportSkipped = FALSE
  /\ clsReportResult = NullReport

\* a process ends
ClsExit(p) ==
  /\ clsPc \in {"ready", "started"}
  /\ p \in clsAlive
  /\ clsAlive' = clsAlive \ {p}
  /\ UNCHANGED <<now, env, procVars, postVars, statVars, repoVars, exceptCls,
                 clsPc, clsStateFile, clsDataFile, clsInstances, clsFinishResult,
                 clsReportSkipped, clsReportResult>>

\* start(config) 229-239: a new object, and its start() (99-126)
ClsStart ==
  /\ clsPc = "ready"
  /\ clsStateFile' = TRUE
  /\ \E ok \in BOOLEAN :
       clsInstances' = Append(clsInstances,
                              [ClsCollect(NewProcessTracer, clsAlive, ok)
                                 EXCEPT !.collectionInterval = TRUE])
  /\ clsPc' = "started"
  /\ UNCHANGED <<now, env, procVars, postVars, statVars, repoVars, exceptCls,
                 clsAlive, clsDataFile, clsFinishResult, clsReportSkipped, clsReportResult>>

\* the interval of an object fires: collectProcesses(), then saveData()
ClsTick(i) ==
  /\ i \in DOMAIN clsInstances
  /\ clsInstances[i].collectionInterval
  /\ \E ok \in BOOLEAN :
       LET tracer == ClsCollect(clsInstances[i], clsAlive, ok) IN
       /\ clsInstances' = [clsInstances EXCEPT ![i] = tracer]
       /\ clsDataFile' = IpSaveData(tracer.completedProcesses, tracer.trackedProcesses)
  /\ UNCHANGED <<now, env, procVars, postVars, statVars, repoVars, exceptCls,
                 clsPc, clsAlive, clsStateFile, clsFinishResult, clsReportSkipped,
                 clsReportResult>>

\* finish(config, job) 241-251: a new object, and its finish() (128-176)
ClsFinish ==
  /\ clsPc = "started"
  /\ IF ~clsStateFile
     THEN /\ clsInstances' = Append(clsInstances, NewProcessTracer)
          /\ clsFinishResult' = "false"
          /\ UNCHANGED clsDataFile
     ELSE \E ok \in BOOLEAN :
            LET tracer == ClsCollect(NewProcessTracer, clsAlive, ok)
                completed == tracer.completedProcesses \o tracer.trackedProcesses
            IN /\ clsInstances' = Append(clsInstances,
                                         [tracer EXCEPT !.trackedProcesses = <<>>,
                                                        !.completedProcesses = completed,
                                                        !.finished = TRUE])
               /\ clsDataFile' = IpSaveData(completed, <<>>)
               /\ clsFinishResult' = "true"
  /\ clsPc' = "finished"
  /\ UNCHANGED <<now, env, procVars, postVars, statVars, repoVars, exceptCls,
                 clsAlive, clsStateFile, clsReportSkipped, clsReportResult>>

\* report(config, job) 253-263: a new object, and its report() (178-221)
ClsReport ==
  /\ clsPc = "finished"
  /\ LET tracer == NewProcessTracer IN
     IF ~tracer.finished
     THEN /\ clsInstances' = Append(clsInstances, tracer)
          /\ clsReportSkipped' = TRUE
          /\ clsReportResult' = NullReport
     ELSE /\ clsInstances' = Append(clsInstances,
                                    [tracer EXCEPT !.completedProcesses = clsDataFile.completed,
                                                   !.trackedProcesses = clsDataFile.tracked])
          /\ clsReportSkipped' = FALSE
          /\ clsReportResult' = [null |-> FALSE, completed |-> clsDataFile.completed]
  /\ clsPc' = "reported"
  /\ UNCHANGED <<now, env, procVars, postVars, statVars, repoVars, exceptCls,
                 clsAlive, clsStateFile, clsDataFile, clsFinishResult>>

\* ------------------------------------------------- the native tracer
\* the events of one kind for a set of pids, in the order of the process list
NatEventsFor(kind, pids) ==
  LET list == Ascending(pids) IN [i \in DOMAIN list |-> [event |-> kind, pid |-> list[i]]]

\* Faulty variant of writeEvent: the events are written whether the stream is
\* open or not.
writeEventsAlways(stream, events, new) == events \o new

\* writeEvent() 257-273, for a run of events: nothing is written without an
\* output stream
writeEvent(stream, events, new) == IF stream THEN events \o new ELSE events

NatInit ==
  /\ natPc = "off"
  /\ natAlive = {}
  /\ natRunning = FALSE
  /\ natStream = FALSE
  /\ natInterval = FALSE
  /\ natPrevious = {}
  /\ natInFlight = <<>>
  /\ natEvents = <<>>
  /\ natTicks = 0
  /\ natCalls = 0

\* while the tracer runs a process is started on the machine, maybe under a
\* pid that was used before
NatSpawn(p) ==
  /\ natRunning
  /\ p \notin natAlive
  /\ natAlive' = natAlive \cup {p}
  /\ UNCHANGED <<now, env, procVars, postVars, statVars, repoVars, exceptNat,
                 natPc, natRunning, natStream, natInterval, natPrevious, natInFlight,
                 natEvents, natTicks, natCalls>>

\* a process ends
NatExit(p) ==
  /\ natRunning
  /\ p \in natAlive
  /\ natAlive' = natAlive \ {p}
  /\ UNCHANGED <<now, env, procVars, postVars, statVars, repoVars, exceptNat,
                 natPc, natRunning, natStream, natInterval, natPrevious, natInFlight,
                 natEvents, natTicks, natCalls>>

\* start() 45-66: the stream is opened, running is set and the first
\* captureSnapshot() awaits the process list
NatStart ==
  /\ natPc = "new"
  /\ ~natRunning
  /\ natStream' = TRUE
  /\ natRunning' = TRUE
  /\ natInFlight' = Append(natInFlight, natAlive)
  /\ natPc' = "starting"
  /\ UNCHANGED <<now, env, procVars, postVars, statVars, repoVars, exceptNat,
                 natAlive, natInterval, natPrevious, natEvents, natTicks, natCalls>>

\* start() 46-49 on a running tracer
NatStartRunning ==
  /\ natRunning
  /\ natCalls < 1
  /\ natCalls' = natCalls + 1
  /\ UNCHANGED <<now, env, procVars, postVars, statVars, repoVars, exceptNat,
                 natPc, natAlive, natRunning, natStream, natInterval, natPrevious,
                 natInFlight, natEvents, natTicks>>

\* captureSnapshot() 114-151 once the process list is there; a failed ps
\* gives the empty list (190-193)
NatCapture(list, ok) ==
  LET current == IF ok THEN list ELSE {} IN
  /\ natEvents' = writeEvent(natStream, natEvents,
                              NatEventsFor("EXEC", current \ natPrevious)
                                \o NatEventsFor("EXIT", natPrevious \ current))
  /\ natPrevious' = current

\* start() 66-80: the first snapshot is taken and the interval is armed
NatStartSettles ==
  /\ natPc = "starting"
  /\ \E ok \in BOOLEAN : NatCapture(natInFlight[1], ok)
  /\ natInFlight' = Tail(natInFlight)
  /\ natInterval' = TRUE
  /\ natPc' = "running"
  /\ UNCHANGED <<now, env, procVars, postVars, statVars, repoVars, exceptNat,
                 natAlive, natRunning, natStream, natTicks, natCalls>>

\* the interval fires: captureSnapshot() calls getProcessList() and awaits it
NatTickStart ==
  /\ natInterval
  /\ natTicks < MaxCompleted
  /\ Len(natInFlight) < 2
  /\ natTicks' = natTicks + 1
  /\ natInFlight' = Append(natInFlight, natAlive)
  /\ UNCHANGED <<now, env, procVars, postVars, statVars, repoVars, exceptNat,
                 natPc, natAlive, natRunning, natStream, natInterval, natPrevious,
                 natEvents, natCalls>>

\* a process list of an interval callback arrives, in any order
NatTickSettles(i) ==
  /\ natPc /= "starting"
  /\ i \in DOMAIN natInFlight
  /\ \E ok \in BOOLEAN : NatCapture(natInFlight[i], ok)
  /\ natInFlight' = SubSeq(natInFlight, 1, i - 1) \o SubSeq(natInFlight, i + 1, Len(natInFlight))
  /\ UNCHANGED <<now, env, procVars, postVars, statVars, repoVars, exceptNat,
                 natPc, natAlive, natRunning, natStream, natInterval, natTicks, natCalls>>

\* stop() 83-112 with finalizeAllProcesses() 153-168: an EXIT for every
\* process of the last snapshot, then the stream is closed
NatStop ==
  /\ natPc = "running"
  /\ natRunning
  /\ natRunning' = FALSE
  /\ natInterval' = FALSE
  /\ natEvents' = writeEvent(natStream, natEvents, NatEventsFor("EXIT", natPrevious))
  /\ natPrevious' = {}
  /\ natStream' = FALSE
  /\ natPc' = "stopped"
  /\ UNCHANGED <<now, env, procVars, postVars, statVars, repoVars, exceptNat,
                 natAlive, natInFlight, natTicks, natCalls>>

\* stop() 84-87 on a tracer that is not running
NatStopStopped ==
  /\ ~natRunning
  /\ natCalls < 1
  /\ natCalls' = natCalls + 1
  /\ UNCHANGED <<now, env, procVars, postVars, statVars, repoVars, exceptNat,
                 natPc, natAlive, natRunning, natStream, natInterval, natPrevious,
                 natInFlight, natEvents, natTicks>>

\* ------------------------------------------------- the current-job lookup
CURRENT_JOB_RETRY_COUNT == 10

\* The answers of listJobsForWorkflowRun for a page: the request fails; no
\* job; a job in progress on this runner among the jobs; fewer than
\* PAGE_SIZE jobs and none of them current; PAGE_SIZE jobs and none current.
\* The run has MaxRepoLen full pages at most.
PageAnswers(page) ==
  {"throws", "empty", "current", "partial"} \cup (IF page < MaxRepoLen THEN {"full"} ELSE {})

\* Faulty variant of MoreAttempts: the bound is inclusive.
MoreAttemptsInclusive(i) == i <= CURRENT_JOB_RETRY_COUNT

\* the loop condition of getCurrentJob() (62)
MoreAttempts(i) == i < CURRENT_JOB_RETRY_COUNT

JobInit ==
  /\ jobPc = "off"
  /\ jobI = 0
  /\ jobPage = 0
  /\ jobAttempts = 0
  /\ jobThrown = FALSE
  /\ jobResult = "none"
  /\ jobFinishCalls = 0
  /\ jobReportCalls = 0

\* run() 124-128 and getCurrentJob() 60-63: the first findCurrentJob()
\* requests page 0
JobRun ==
  /\ jobPc = "ready"
  /\ IF MoreAttempts(0)
     THEN /\ jobPc' = "attempt"
          /\ jobAttempts' = jobAttempts + 1
          /\ UNCHANGED jobResult
     ELSE /\ jobPc' = "decided"
          /\ jobResult' = "null"
          /\ UNCHANGED jobAttempts
  /\ jobI' = 0
  /\ jobPage' = 0
  /\ UNCHANGED <<now, env, procVars, postVars, statVars, repoVars, exceptJob,
                 jobThrown, jobFinishCalls, jobReportCalls>>

\* findCurrentJob() 33-58 when a page request settles, and what
\* getCurrentJob() does with its result (64-76)
JobPageSettles ==
  /\ jobPc = "attempt"
  /\ \E answer \in PageAnswers(jobPage) :
       CASE answer = "throws" ->
              /\ jobThrown' = TRUE
              /\ jobResult' = "null"
              /\ jobPc' = "decided"
              /\ UNCHANGED jobPage
         [] answer = "current" ->
              /\ jobResult' = "job"
              /\ jobPc' = "decided"
              /\ UNCHANGED <<jobThrown, jobPage>>
         [] answer \in {"empty", "partial"} ->
              /\ jobPc' = "waiting"
              /\ UNCHANGED <<jobThrown, jobResult, jobPage>>
         [] answer = "full" ->
              /\ jobPage' = jobPage + 1
              /\ UNCHANGED <<jobPc, jobThrown, jobResult>>
  /\ UNCHANGED <<now, env, procVars, postVars, statVars, repoVars, exceptJob,
                 jobI, jobAttempts, jobFinishCalls, jobReportCalls>>

\* getCurrentJob() 62-68: the retry timer fires; the next attempt, or null
\* after the last
JobRetry ==
  /\ jobPc = "waiting"
  /\ jobI' = jobI + 1
  /\ IF MoreAttempts(jobI + 1)
     THEN /\ jobPc' = "attempt"
          /\ jobPage' = 0
          /\ jobAttempts' = jobAttempts + 1
          /\ UNCHANGED jobResult
     ELSE /\ jobPc' = "decided"
          /\ jobResult' = "null"
          /\ UNCHANGED <<jobPage, jobAttempts>>
  /\ UNCHANGED <<now, env, procVars, postVars, statVars, repoVars, exceptJob,
                 jobThrown, jobFinishCalls, jobReportCalls>>

\* run() 130-172: without a job it returns; else the three finish() and the
\* three report() calls
JobFinishAndReport ==
  /\ jobPc = "decided"
  /\ IF jobResult = "null"
     THEN UNCHANGED <<jobFinishCalls, jobReportCalls>>
     ELSE /\ jobFinishCalls' = jobFinishCalls + 3
          /\ jobReportCalls' = jobReportCalls + 3
  /\ jobPc' = "done"
  /\ UNCHANGED <<now, env, procVars, postVars, statVars, repoVars, exceptJob,
                 jobI, jobPage, jobAttempts, jobThrown, jobResult>>

\* ------------------------------------------------------- the other variants
ExtInit ==
  /\ ChartInit
  /\ CfgInit
  /\ SrvInit
  /\ IpInit
  /\ ClsInit
  /\ NatInit
  /\ JobInit

\* ------------------------------------------- a client of the repository
RepoInit ==
  /\ repoPc = "idle"
  /\ repoData = EmptyData
  /\ repoSaved = FALSE
  /\ repoLoaded = EmptyData
  /\ statsLoaded = NullStats

SeqsUpTo(S, n) == UNION { [1..k -> S] : k \in 0..n }

\* The states a tracer can hand to save(): what the differencer produces from
\* the provider's processes.
TrackedRecs == { NewTracked(Proc(pid, pr), JobStart) : pid \in 1..MaxPid, pr \in Profiles }
CompletedRecs == { Complete(r, MaxNow) : r \in TrackedRecs }
RepoStates == { [completed |-> c, tracked |-> t] :
                  c \in SeqsUpTo(CompletedRecs, MaxRepoLen), t \in SeqsUpTo(TrackedRecs, MaxRepoLen) }

\* processDataRepository.ts 17-24: save(data)
RepoSave ==
  /\ repoPc = "idle"
  /\ \E data \in RepoStates, ok \in BOOLEAN :
       /\ procFile' = Save(procFile, data, ok)
       /\ repoData' = data
       /\ repoSaved' = ok
  /\ repoPc' = "saved"
  /\ UNCHANGED <<now, env, marker, mainPc, bgPc, bgTimers, bgInFlight, expectedScheduleTime,
                 trackedProcesses, completedProcesses, bgT0, bgTicks, lastTick, postVars,
                 statVars, repoLoaded, statsLoaded, extVars>>

\* processDataRepository.ts 26-40: load()
RepoLoad ==
  /\ repoPc \in {"idle", "saved"}
  /\ repoLoaded' = Load(procFile)
  /\ repoPc' = "loaded"
  /\ UNCHANGED <<now, env, procVars, postVars, statVars, repoData, repoSaved, statsLoaded, extVars>>

\* The document is removed, or cut short by a crash of its writer.
RepoDamage ==
  /\ repoPc = "saved"
  /\ procFile.kind = "json"
  /\ \E f \in {NoFile, CorruptFile} : procFile' = f
  /\ repoSaved' = FALSE
  /\ UNCHANGED <<now, env, marker, mainPc, bgPc, bgTimers, bgInFlight, expectedScheduleTime,
                 trackedProcesses, completedProcesses, bgT0, bgTicks, lastTick, postVars,
                 statVars, repoPc, repoData, repoLoaded, statsLoaded, extVars>>

\* The documents a reader may find: none, what save() wrote (processDataRepository.ts
\* 17-24, statsDataRepository.ts 196-209), or one cut short by a crash of its writer.
ProcDocs ==
  {NoFile, CorruptFile} \cup
  { Stringify(d) : d \in { r \in RepoStates : Len(r.completed) + Len(r.tracked) <= MaxRepoLen } }

StatsDocs ==
  { [kind |-> k, data |-> [c \in Cats |-> <<>>]] : k \in {"none", "corrupt"} } \cup
  { [kind |-> "json", data |-> [c \in Cats |-> h]] :
      h \in SeqsUpTo({ Transform("cpu", 0, JobStart, 0) }, MaxRepoLen - 1) }

\* statsDataRepository.ts 25-38: load()
StatsRepoLoad ==
  /\ repoPc = "loaded"
  /\ statsLoaded' = StatsLoad(statsFile)
  /\ repoPc' = "statsLoaded"
  /\ UNCHANGED <<now, env, procVars, postVars, statVars, repoData, repoSaved, repoLoaded, extVars>>

vars == <<now, env, procVars, postVars, statVars, repoVars, extVars>>

\* ----------------------------------------------------------- environments
\* The categories whose provider call may fail in a run: the collectors share
\* one code path, so the unreliable ones are taken in a fixed order.
FlakyOrder == <<"network", "cpu", "disk", "memory", "diskSize">>
FlakySets == { { FlakyOrder[i] : i \in 1..k } : k \in 0..MaxFlaky }

\* The provider's possible answers: every process table, or only the tables
\* whose processes all report the same readings.
\* configLoader.ts 6-27: the configuration when no input is given
DefaultConfig ==
  [minDuration |-> -1, chartShow |-> TRUE,
   chartMaxCount |-> DEFAULT_PROC_TRACE_CHART_MAX_COUNT, tableShow |-> TRUE]

ProcEnv == [tables |-> ProcessLists, statFreq |-> StatFreq(None), flaky |-> {}, rates |-> {2097152},
            config |-> DefaultConfig, horizon |-> MaxNow]
SteadyEnv == [ProcEnv EXCEPT !.tables = { l \in ProcessLists : \A i \in DOMAIN l : l[i].name = "a" }]
\* The summed transfer rates the provider reports in a run, in bytes per second:
\* 1.5 MiB/s or 2 MiB/s.
Rates == {1572864, 2097152}
\* A provider whose start times are not to be trusted: besides a missing start
\* time and an unparseable one, it reports for a process a start time that is
\* later than the clock of the tracer (the wall clock was set back meanwhile).
AheadProfile ==
  [name |-> "c", command |-> "cc", params |-> "", cpu |-> 1, mem |-> 1,
   started |-> MaxNow + ClockStep]
SkewTables ==
  { [i \in DOMAIN l |-> IF l[i].name = "a" /\ l[i].pid # 0
                         THEN Proc(l[i].pid, AheadProfile) ELSE l[i]] : l \in ProcessLists }
SkewEnv == [ProcEnv EXCEPT !.tables = SkewTables]

StatsEnvs == { [ProcEnv EXCEPT !.statFreq = StatFreq(f), !.flaky = fs, !.rates = {r}] :
                 f \in {None, 2 * ClockStep}, fs \in FlakySets, r \in Rates }

\* The background process tracer alone, over every process table.
Init ==
  /\ now = JobStart
  /\ RepoInit
  /\ ExtInit
  /\ env = ProcEnv
  /\ mainPc = "idle"
  /\ statsPc = "off"
  /\ ProcInit
  /\ PostInit
  /\ StatsInitState

Next ==
  \/ Advance
  \/ Start
  \/ StartFail
  \/ BgInit
  \/ ProcTickStart
  \/ ProcTickOk
  \/ ProcTickFail

Spec == Init /\ [][Next]_vars

\* Setup phase, background tracer and finalize phase together.
InitPost ==
  /\ now = JobStart
  /\ RepoInit
  /\ ExtInit
  /\ env = SteadyEnv
  /\ mainPc = "idle"
  /\ statsPc = "off"
  /\ ProcInit
  /\ PostInit
  /\ StatsInitState

NextPost ==
  \/ Advance
  \/ Start
  \/ StartFail
  \/ BgInit
  \/ ProcTickStart
  \/ ProcTickOk
  \/ ProcTickFail
  \/ Finish
  \/ Report

SpecPost == InitPost /\ [][NextPost]_vars

\* The stats background collector alone, once the setup phase has spawned it.
InitStats ==
  /\ now = JobStart
  /\ RepoInit
  /\ ExtInit
  /\ env \in StatsEnvs
  /\ mainPc = "started"
  /\ statsPc = "spawned"
  /\ ProcInit
  /\ PostInit
  /\ StatsInitState

NextStats ==
  \/ Advance
  \/ StatsInit
  \/ StatsTickStart
  \/ StatsFetchOk
  \/ StatsFetchFail
  \/ StatsTickEnd

SpecStats == InitStats /\ [][NextStats]_vars

\* The process data repository and a client that saves and loads.
InitRepo ==
  /\ now = JobStart
  /\ env = ProcEnv
  /\ mainPc = "idle"
  /\ statsPc = "off"
  /\ ProcInit
  /\ PostInit
  /\ StatsInitState
  /\ RepoInit
  /\ ExtInit

NextRepo ==
  \/ RepoSave
  \/ RepoLoad
  \/ RepoDamage

SpecRepo == InitRepo /\ [][NextRepo]_vars

\* The readers of the finalize phase, over every document they may find.
Quiet ==
  /\ now = JobStart
  /\ mainPc = "started"
  /\ statsPc = "off"
  /\ marker = TRUE
  /\ bgPc = "off"
  /\ bgTimers = <<>>
  /\ bgInFlight = 0
  /\ expectedScheduleTime = 0
  /\ trackedProcesses = <<>>
  /\ completedProcesses = <<>>
  /\ bgT0 = 0
  /\ bgTicks = 0
  /\ lastTick = NoTick
  /\ statsTimers = <<>>
  /\ statsInFlight = {}
  /\ statsPending = {}
  /\ statsExpected = 0
  /\ statCollectTime = 0
  /\ histograms = [c \in Cats |-> <<>>]
  /\ statsT0 = 0
  /\ statsStarted = 0
  /\ statsTicks = 0
  /\ lastStat = NoStat
  /\ RepoInit

InitLoad ==
  /\ Quiet
  /\ ExtInit
  /\ env = ProcEnv
  /\ procFile \in ProcDocs
  /\ statsFile \in StatsDocs
  /\ PostInit

NextLoad ==
  \/ RepoLoad
  \/ StatsRepoLoad

SpecLoad == InitLoad /\ [][NextLoad]_vars

\* report() over the documents a background tracer may have left and over the
\* configurations the loader may produce.
ChartRecs ==
  { Complete([pid |-> 1, name |-> "a", command |-> "ca", params |-> "-x",
              started |-> s, pcpu |-> 1, pmem |-> 2], e) :
      s \in {JobStart, JobStart + ClockStep},
      e \in {JobStart + 2 * ClockStep, JobStart + 4 * ClockStep} }

ChartDocs ==
  { Stringify([completed |-> c, tracked |-> <<>>]) : c \in SeqsUpTo(ChartRecs, MaxChartLen) }

\* configLoader.ts 6-27: minDuration and chartMaxCount are any integer
Configs ==
  { [minDuration |-> m, chartShow |-> cs, chartMaxCount |-> k, tableShow |-> ts] :
      m \in {-1, 0, 2 * ClockStep}, k \in -1..MaxChartLen, cs \in BOOLEAN, ts \in BOOLEAN }

InitChart ==
  /\ Quiet
  /\ ExtInit
  /\ env \in { [ProcEnv EXCEPT !.config = c] : c \in Configs }
  /\ procFile \in ChartDocs
  /\ statsFile = [kind |-> "none", data |-> [c \in Cats |-> <<>>]]
  /\ postPc = "finished"
  /\ finishResult = TRUE
  /\ reportLoaded = FALSE
  /\ reportProcs = <<>>
  /\ reportResult = "none"
  /\ reportFiltered = <<>>
  /\ reportSelected = <<>>
  /\ reportChart = <<>>
  /\ reportTable = <<>>

NextChart == Report

SpecChart == InitChart /\ [][NextChart]_vars

\* The background process tracer alone, over the steady process tables.
InitSteady ==
  /\ now = JobStart
  /\ RepoInit
  /\ ExtInit
  /\ env = SteadyEnv
  /\ mainPc = "idle"
  /\ statsPc = "off"
  /\ ProcInit
  /\ PostInit
  /\ StatsInitState

\* The background process tracer alone, with a provider of doubtful start times.
InitSkew ==
  /\ now = JobStart
  /\ RepoInit
  /\ ExtInit
  /\ env = SkewEnv
  /\ mainPc = "idle"
  /\ statsPc = "off"
  /\ ProcInit
  /\ PostInit
  /\ StatsInitState

SpecSkew == InitSkew /\ [][Next]_vars

\* The background process tracer alone in a longer run, in which a process
\* runs by itself, is seen with its readings and start time or without them, and
\* is never without pid.
LongTables ==
  { l \in ProcessLists :
      Len(l) <= 1 /\ \A i \in DOMAIN l : l[i].pid # 0 /\ l[i].name \in {"a", ""} }
LongEnv == [ProcEnv EXCEPT !.tables = LongTables, !.horizon = MaxNow + 2 * ClockStep]

InitLong ==
  /\ now = JobStart
  /\ RepoInit
  /\ ExtInit
  /\ env = LongEnv
  /\ mainPc = "idle"
  /\ statsPc = "off"
  /\ ProcInit
  /\ PostInit
  /\ StatsInitState

SpecLong == InitLong /\ [][Next]_vars

\* The two background processes, each in a run of its own: they share nothing
\* but the clock.
InitSched == InitSteady \/ InitStats

NextSched ==
  \/ Advance
  \/ Start
  \/ StartFail
  \/ BgInit
  \/ ProcTickStart
  \/ ProcTickOk
  \/ ProcTickFail
  \/ StatsInit
  \/ StatsTickStart
  \/ StatsFetchOk
  \/ StatsFetchFail
  \/ StatsTickEnd

SpecSched == InitSched /\ [][NextSched]_vars

\* Both background processes in longer runs of their own; the stats collector
\* ticks every two clock steps and its network call may fail.
LongStatsEnv ==
  [ProcEnv EXCEPT !.statFreq = StatFreq(2 * ClockStep), !.flaky = {FlakyOrder[1]},
                  !.horizon = MaxNow + 2 * ClockStep]

InitLongStats ==
  /\ now = JobStart
  /\ RepoInit
  /\ ExtInit
  /\ env = LongStatsEnv
  /\ mainPc = "started"
  /\ statsPc = "spawned"
  /\ ProcInit
  /\ PostInit
  /\ StatsInitState

InitOverrun == InitLong \/ InitLongStats

\* Either process does nothing but its ticks, so its event loop is idle when a
\* timer comes due and runs the callback before the clock moves on: what makes
\* a tick late in these runs is the time the ticks before it took.
NoCallbackDue ==
  /\ \A i \in DOMAIN bgTimers : bgTimers[i] > now
  /\ \A i \in DOMAIN statsTimers : statsTimers[i] > now

AdvancePrompt == NoCallbackDue /\ Advance

NextOverrun ==
  \/ AdvancePrompt
  \/ Start
  \/ StartFail
  \/ BgInit
  \/ ProcTickStart
  \/ ProcTickOk
  \/ ProcTickFail
  \/ StatsInit
  \/ StatsTickStart
  \/ StatsFetchOk
  \/ StatsFetchFail
  \/ StatsTickEnd

SpecOverrun == InitOverrun /\ [][NextOverrun]_vars

\* reportWorkflowMetrics() alone: the stats server has returned samples for
\* every metric, for every metric but the network, or for none.
InitStatsReport ==
  /\ Quiet
  /\ env = ProcEnv
  /\ procFile = NoFile
  /\ statsFile = [kind |-> "none", data |-> [c \in Cats |-> <<>>]]
  /\ PostInit
  /\ chartPc = 1
  /\ chartData \in {Cats, Cats \ {"network"}, {}}
  /\ charts = [c \in {ChartNames[k] : k \in DOMAIN ChartNames} |-> NullChart]
  /\ chartThrown = FALSE
  /\ postContentItems = <<>>
  /\ CfgInit
  /\ SrvInit
  /\ IpInit
  /\ ClsInit
  /\ NatInit
  /\ JobInit

\* The inputs of the action: missing, not a number, a number, a number with a
\* unit.
RawInputs == {<<>>, <<"a", "b">>, <<"0">>, <<"2">>, <<"-", "1">>, <<"3", "s">>}

CfgRecs == { r \in ChartRecs : r.ended = JobStart + 2 * ClockStep }

\* The two entry points with any inputs, and a report over any few processes.
InitConfig ==
  /\ Quiet
  /\ env = ProcEnv
  /\ procFile = NoFile
  /\ statsFile = [kind |-> "none", data |-> [c \in Cats |-> <<>>]]
  /\ PostInit
  /\ ChartInit
  /\ cfgPc = "main"
  /\ cfgInputs \in [{"proc_trace_min_duration", "proc_trace_chart_max_count",
                      "metric_frequency"} -> RawInputs]
  /\ cfgConfig = NoConfig
  /\ cfgFreq = None
  /\ cfgCompleted \in SeqsUpTo(CfgRecs, MaxChartLen)
  /\ cfgRows = <<>>
  /\ SrvInit
  /\ IpInit
  /\ ClsInit
  /\ NatInit
  /\ JobInit

\* The stats server at the end of the job: it has sampled on schedule once or
\* not yet, and some provider calls may fail.
InitServer ==
  /\ Quiet
  /\ env \in { [ProcEnv EXCEPT !.flaky = fs] : fs \in FlakySets }
  /\ procFile = NoFile
  /\ statsFile = [kind |-> "none", data |-> [c \in Cats |-> <<>>]]
  /\ PostInit
  /\ ChartInit
  /\ CfgInit
  /\ srvPc = "idle"
  /\ \E sampled \in BOOLEAN :
       /\ srvHistogram = [c \in SrvCats |-> IF sampled THEN <<JobStart - ClockStep>> ELSE <<>>]
       /\ srvStatCollectTime = IF sampled THEN JobStart - ClockStep ELSE 0
  /\ srvPending = {}
  /\ srvAppended = {}
  /\ srvGot = [c \in SrvCats |-> NoAnswer]
  /\ IpInit
  /\ ClsInit
  /\ NatInit
  /\ JobInit

\* The in-process tracer from before start(), on a machine where processes
\* come and go.
InitInProcess ==
  /\ Quiet
  /\ env = ProcEnv
  /\ procFile = NoFile
  /\ statsFile = [kind |-> "none", data |-> [c \in Cats |-> <<>>]]
  /\ PostInit
  /\ ChartInit
  /\ CfgInit
  /\ SrvInit
  /\ ipPc = "ready"
  /\ ipAlive = {}
  /\ ipSeen = {}
  /\ ipStateFile = FALSE
  /\ ipDataFile = NoDataFile
  /\ ipSameProcess = TRUE
  /\ ipInterval = FALSE
  /\ ipTick = FALSE
  /\ ipTracked = <<>>
  /\ ipCompleted = <<>>
  /\ ipFinished = FALSE
  /\ ipBefore = <<>>
  /\ ClsInit
  /\ NatInit
  /\ JobInit

NextInProcess ==
  \/ \E p \in IpPids : IpSpawn(p)
  \/ \E p \in IpPids : IpExit(p)
  \/ IpStart
  \/ IpTickStart
  \/ IpTickSettles
  \/ IpNewProcess
  \/ IpFinishCall
  \/ IpFinishSettles

SpecInProcess == InitInProcess /\ [][NextInProcess]_vars

\* The exported functions of the class-based tracer, called in their order,
\* while the processes of the job end.
InitClass ==
  /\ Quiet
  /\ env = ProcEnv
  /\ procFile = NoFile
  /\ statsFile = [kind |-> "none", data |-> [c \in Cats |-> <<>>]]
  /\ PostInit
  /\ ChartInit
  /\ CfgInit
  /\ SrvInit
  /\ IpInit
  /\ clsPc = "ready"
  /\ clsAlive \in SUBSET IpPids
  /\ clsStateFile = FALSE
  /\ clsDataFile = NoDataFile
  /\ clsInstances = <<>>
  /\ clsFinishResult = "none"
  /\ clsReportSkipped = FALSE
  /\ clsReportResult = NullReport
  /\ NatInit
  /\ JobInit

NextClass ==
  \/ \E p \in IpPids : ClsExit(p)
  \/ ClsStart
  \/ \E i \in 1..3 : ClsTick(i)
  \/ ClsFinish
  \/ ClsReport

SpecClass == InitClass /\ [][NextClass]_vars

\* A new native tracer on a machine where processes come and go.
InitNative ==
  /\ Quiet
  /\ env = ProcEnv
  /\ procFile = NoFile
  /\ statsFile = [kind |-> "none", data |-> [c \in Cats |-> <<>>]]
  /\ PostInit
  /\ ChartInit
  /\ CfgInit
  /\ SrvInit
  /\ IpInit
  /\ ClsInit
  /\ natPc = "new"
  /\ natAlive \in {{}, {1}}
  /\ natRunning = FALSE
  /\ natStream = FALSE
  /\ natInterval = FALSE
  /\ natPrevious = {}
  /\ natInFlight = <<>>
  /\ natEvents = <<>>
  /\ natTicks = 0
  /\ natCalls = 0
  /\ JobInit

NextNative ==
  \/ \E p \in IpPids : NatSpawn(p)
  \/ \E p \in IpPids : NatExit(p)
  \/ NatStart
  \/ NatStartRunning
  \/ NatStartSettles
  \/ NatTickStart
  \/ \E i \in 1..2 : NatTickSettles(i)
  \/ NatStop
  \/ NatStopStopped

SpecNative == InitNative /\ [][NextNative]_vars

\* The post step from the call of run().
InitJob ==
  /\ Quiet
  /\ env = ProcEnv
  /\ procFile = NoFile
  /\ statsFile = [kind |-> "none", data |-> [c \in Cats |-> <<>>]]
  /\ PostInit
  /\ ChartInit
  /\ CfgInit
  /\ SrvInit
  /\ IpInit
  /\ ClsInit
  /\ NatInit
  /\ jobPc = "ready"
  /\ jobI = 0
  /\ jobPage = 0
  /\ jobAttempts = 0
  /\ jobThrown = FALSE
  /\ jobResult = "none"
  /\ jobFinishCalls = 0
  /\ jobReportCalls = 0

NextJob ==
  \/ JobRun
  \/ JobPageSettles
  \/ JobRetry
  \/ JobFinishAndReport

\* a request is answered or fails, and a timer fires
SpecJob == InitJob /\ [][NextJob]_vars /\ WF_vars(NextJob)

NextServer ==
  \/ SrvFinish
  \/ \E c \in SrvCats : SrvFetchSettles(c)
  \/ \E c \in SrvCats : SrvGet(c)

SpecServer == InitServer /\ [][NextServer]_vars

NextConfig ==
  \/ LoadMainConfig
  \/ StartCollector
  \/ LoadPostConfig
  \/ SelectChartRows

SpecConfig == InitConfig /\ [][NextConfig]_vars

NextStatsReport ==
  \/ GenerateChart
  \/ FormatReport

SpecStatsReport == InitStatsReport /\ [][NextStatsReport]_vars

\* ---------------------------------------------------------------- fairness
\* The clock keeps running and a due callback is run by the event loop.
SpecLive == InitSteady /\ [][Next]_vars /\ WF_vars(Advance) /\ WF_vars(ProcTickStart)


\* ------------------------------------------------------------ properties
ListPids(list) == { list[i].pid : i \in DOMAIN list }
TickDone == bgTicks' = bgTicks + 1
TickOkDone == TickDone /\ lastTick'.outcome = "ok"
Emitted == SubSeq(completedProcesses', Len(completedProcesses) + 1, Len(completedProcesses'))

\* C1: once finish() has returned (and while report() loads), the background
\* tracer runs no tick and writes no document any more.
C1_NoTickAfterFinish ==
  [][postPc # "idle" =>
       /\ bgTicks' = bgTicks
       /\ bgInFlight' = bgInFlight
       /\ procFile' = procFile]_vars

\* C2: finish() emits every PID that is still tracked as a CompletedProcess with
\* ended = the time of finish() and duration = that time - started.
C2_ForcedFinalization ==
  [][(postPc = "idle" /\ postPc' = "finished") =>
       \A i \in DOMAIN trackedProcesses :
         \E j \in DOMAIN completedProcesses' :
           /\ completedProcesses'[j].pid = trackedProcesses[i].pid
           /\ completedProcesses'[j].ended = now
           /\ completedProcesses'[j].duration = JsSub(now, trackedProcesses[i].started)]_vars

\* C3: a tick whose snapshot lacks a tracked PID emits exactly one
\* CompletedProcess for it, with the tracked start time, ended = the tick's time
\* and duration = ended - started, and removes the PID from the tracked set; it
\* emits nothing for any other PID.
C3_CompletionCorrect ==
  [][TickOkDone =>
       /\ \A i \in DOMAIN trackedProcesses :
            LET r == trackedProcesses[i] IN
            r.pid \notin ListPids(lastTick'.list) =>
              /\ Cardinality({ j \in DOMAIN Emitted : Emitted[j].pid = r.pid }) = 1
              /\ \E j \in DOMAIN Emitted :
                   /\ Emitted[j].pid = r.pid
                   /\ Emitted[j].started = r.started
                   /\ Emitted[j].ended = now
                   /\ Emitted[j].duration = JsSub(now, r.started)
              /\ \A k \in DOMAIN trackedProcesses' : trackedProcesses'[k].pid # r.pid
       /\ \A j \in DOMAIN Emitted :
            /\ Emitted[j].pid \notin ListPids(lastTick'.list)
            /\ \E i \in DOMAIN trackedProcesses : trackedProcesses[i].pid = Emitted[j].pid
       /\ SubSeq(completedProcesses', 1, Len(completedProcesses)) = completedProcesses]_vars

\* a tick has just completed a tracked process that its snapshot lacked
C3_Witness ==
  /\ lastTick.outcome = "ok"
  /\ completedProcesses # <<>>
  /\ LET c == completedProcesses[Len(completedProcesses)] IN
       /\ c.ended = lastTick.seen
       /\ c.started # NaN
       /\ c.duration = c.ended - c.started
       /\ c.duration > 0
       /\ c.pid \notin ListPids(lastTick.list)
       /\ ~HasPid(trackedProcesses, c.pid)

\* C4 as stated: no PID is both in the tracked set and in the completed list.
C4_Exclusive ==
  \A i \in DOMAIN trackedProcesses : \A j \in DOMAIN completedProcesses :
    trackedProcesses[i].pid # completedProcesses[j].pid

\* C4 amended: a PID is in the tracked set and in the completed list only when it
\* was seen again after that record was completed (its number was reused): the
\* record ended before the latest snapshot, and the latest snapshot has the PID.
C4_ExclusiveUnlessReused ==
  \A i \in DOMAIN trackedProcesses : \A j \in DOMAIN completedProcesses :
    trackedProcesses[i].pid = completedProcesses[j].pid =>
      /\ completedProcesses[j].ended < lastTick.seen
      /\ trackedProcesses[i].pid \in ListPids(lastTick.list)

\* a PID completed by one tick is tracked again by a later one
C4_Witness ==
  /\ lastTick.outcome = "ok"
  /\ \E i \in DOMAIN trackedProcesses : \E j \in DOMAIN completedProcesses :
       /\ trackedProcesses[i].pid = completedProcesses[j].pid
       /\ completedProcesses[j].ended < lastTick.seen

\* C5: after k ticks expectedScheduleTime is T0 + k*F whatever the ticks took; the
\* timer is armed with the delay expectedScheduleTime - now, so a tick that
\* finished before the next deadline leaves the next tick due exactly at
\* T0 + k*F.  Both background schedulers.
C5_DriftCorrected ==
  /\ bgPc = "running" =>
       /\ expectedScheduleTime = bgT0 + bgTicks * COLLECTION_INTERVAL_MS
       /\ (bgTicks >= 1 /\ bgTimers # <<>>) =>
            /\ lastTick.delay = expectedScheduleTime - lastTick.at
            /\ lastTick.delay >= 1 => bgTimers[1] = bgT0 + bgTicks * COLLECTION_INTERVAL_MS
  /\ statsPc = "running" =>
       /\ statsExpected = statsT0 + statsTicks * env.statFreq
       /\ (statsTicks >= 1 /\ statsTimers # <<>>) =>
            /\ lastStat.delay = statsExpected - lastStat.at
            /\ lastStat.delay >= 1 => statsTimers[1] = statsT0 + statsTicks * env.statFreq

\* the first tick took 500 ms with F = 5000 and the second is due at T0 + 5000
C5_Witness ==
  /\ statsPc = "running"
  /\ env.statFreq = 5000
  /\ statsTicks = 1
  /\ lastStat.at = statsT0 + ClockStep
  /\ statsTimers = <<statsT0 + 5000>>

\* C6: in each background process at most one tick is in flight or armed at any
\* time: while a tick (or one of its provider calls) is outstanding no timer is
\* pending, and a timer is armed only by the step that ends a tick.
C6_NoParallelTicks ==
  /\ Len(bgTimers) + bgInFlight <= 1
  /\ Len(statsTimers) + Cardinality(statsInFlight) <= 1
  /\ \A f \in statsPending : f.tick \in statsInFlight
  /\ statsPending # {} => statsTimers = <<>>

\* a later tick is in flight, with provider calls outstanding and no timer armed
C6_Witness ==
  /\ statsTicks >= 1
  /\ Cardinality(statsInFlight) = 1
  /\ Cardinality(statsPending) = 2
  /\ statsTimers = <<>>

\* C7: whatever the outcome of the ticks so far, the schedule has advanced by F
\* per tick and exactly one tick is pending or in flight; a failing tick k leaves
\* the timer armed for T0 + (k+1)*F (at once when that time has passed), and the
\* next tick starts as soon as the clock gets there.
C7_SchedulerSurvivesFailure ==
  /\ [](bgPc = "running" =>
          /\ expectedScheduleTime = bgT0 + bgTicks * COLLECTION_INTERVAL_MS
          /\ Len(bgTimers) + bgInFlight = 1)
  /\ []((lastTick.outcome = "failed" /\ bgInFlight = 0) =>
          /\ Len(bgTimers) = 1
          /\ lastTick.at < expectedScheduleTime => bgTimers[1] = expectedScheduleTime
          /\ lastTick.at >= expectedScheduleTime => bgTimers[1] = lastTick.at + 1)
  /\ \A k \in 1..(MaxClock + 1) :
       (lastTick.outcome = "failed" /\ bgTicks = k /\ bgInFlight = 0)
         ~> (bgInFlight = 1 /\ bgTicks = k) \/ (bgTimers # <<>> /\ bgTimers[1] > MaxNow)

\* a tick that failed has been followed by another tick
C7_Witness ==
  /\ lastTick.outcome = "failed"
  /\ bgInFlight = 1
  /\ bgTicks >= 2

\* C8: while a PID stays tracked its peaks are the maximum of the previous peak
\* and the new reading (a missing reading counting as 0), so they never decrease;
\* a PID's first entry has the first reading as its peaks, and a CompletedProcess
\* carries the peaks its tracked entry had reached.
C8_PeakMonotonic ==
  [][TickOkDone =>
       /\ \A k \in DOMAIN lastTick'.list :
            LET p   == lastTick'.list[k]
                cpu == IF p.cpu = None THEN 0 ELSE p.cpu
                mem == IF p.mem = None THEN 0 ELSE p.mem
            IN p.pid # 0 =>
                 \E n \in DOMAIN trackedProcesses' :
                   LET new == trackedProcesses'[n] IN
                   /\ new.pid = p.pid
                   /\ \A i \in DOMAIN trackedProcesses :
                        LET old == trackedProcesses[i] IN
                        old.pid = p.pid =>
                          /\ new.pcpu >= old.pcpu /\ new.pmem >= old.pmem
                          /\ new.pcpu = Max(old.pcpu, cpu)
                          /\ new.pmem = Max(old.pmem, mem)
                   /\ ~HasPid(trackedProcesses, p.pid) =>
                          new.pcpu = cpu /\ new.pmem = mem
       /\ \A j \in DOMAIN Emitted : \E i \in DOMAIN trackedProcesses :
            /\ trackedProcesses[i].pid = Emitted[j].pid
            /\ Emitted[j].maxCpu = trackedProcesses[i].pcpu
            /\ Emitted[j].maxMem = trackedProcesses[i].pmem]_vars

\* a process whose latest reading was below an earlier one has been completed
\* with the earlier, higher, peaks
C8_Witness ==
  /\ lastTick.outcome = "ok"
  /\ \E j \in DOMAIN completedProcesses :
       /\ completedProcesses[j].maxCpu = 2
       /\ completedProcesses[j].maxMem = 2

\* C9: in every category the samples are in non-decreasing order of time.
C9_HistogramOrdered ==
  \A c \in Cats : \A i \in 1..(Len(histograms[c]) - 1) :
    histograms[c][i].time <= histograms[c][i + 1].time

\* a category has skipped a tick that another category recorded, and has samples
\* from the ticks before and after it
C9_Witness ==
  \E c \in Cats :
    /\ Len(histograms[c]) = 2
    /\ Len(histograms["cpu"]) = 3
    /\ histograms[c][1].time = histograms["cpu"][1].time
    /\ histograms[c][2].time = histograms["cpu"][3].time

\* C10: load() after a successful save(S) of a valid state S (every number
\* finite) returns S: the same tracked and completed records in the same order.
FiniteFields(r, fields) == \A f \in fields : r[f] # NaN
Valid(data) ==
  /\ \A i \in DOMAIN data.tracked :
       FiniteFields(data.tracked[i], {"pid", "started", "pcpu", "pmem"})
  /\ \A i \in DOMAIN data.completed :
       FiniteFields(data.completed[i],
                    {"pid", "started", "ended", "duration", "maxCpu", "maxMem"})

C10_RoundTrip ==
  (repoPc = "loaded" /\ repoSaved /\ Valid(repoData)) => repoLoaded = repoData

\* a state with tracked and completed records has been saved and loaded
C10_Witness ==
  /\ repoPc = "loaded"
  /\ repoSaved
  /\ Valid(repoData)
  /\ Len(repoData.tracked) = 2
  /\ Len(repoData.completed) = 2
  /\ repoData.tracked[1] # repoData.tracked[2]
  /\ repoLoaded = repoData

\* C11: load() never throws; on a document that does not exist or cannot be
\* parsed ProcessDataRepository.load() returns {completed: [], tracked: []} and
\* StatsDataRepository.load() returns null.
C11_GracefulEmpty ==
  /\ (repoPc \in {"loaded", "statsLoaded"} /\ procFile.kind # "json")
       => repoLoaded = EmptyData
  /\ repoPc = "statsLoaded" =>
       /\ ~statsLoaded.threw
       /\ statsFile.kind # "json" => statsLoaded.null

\* neither document can be parsed: the process load() returned the empty
\* state and the stats load() returned null
C11_Witness ==
  /\ repoPc = "statsLoaded"
  /\ procFile.kind = "corrupt"
  /\ repoLoaded = EmptyData
  /\ statsFile.kind = "corrupt"
  /\ statsLoaded = NullStats

\* C12: a tick in which the provider call (or transform) of some categories failed
\* still ends: those categories get no sample for the tick, every other category
\* gets exactly one, the histories are saved (unless the write itself fails) and
\* the next tick is armed; and a tick whose calls have all settled can end.
StatsTickDone == statsTicks' = statsTicks + 1

C12_CategoryIsolation ==
  /\ [][StatsTickDone =>
          /\ \A c \in Cats :
               Len(histograms'[c]) = lastStat.base[c] + (IF c \in lastStat.failed THEN 0 ELSE 1)
          /\ \A c \in Cats \ lastStat.failed :
               histograms'[c][Len(histograms'[c])].time = statCollectTime
          /\ statsFile' = [kind |-> "json", data |-> histograms'] \/ statsFile' = statsFile
          /\ Len(statsTimers') = 1
          /\ statsTimers'[1] = now + TimeoutDelay(statsExpected' - now)
          /\ statsExpected' = statsExpected + env.statFreq]_vars
  /\ []((statsInFlight # {} /\ statsPending = {}) => ENABLED StatsTickEnd)

\* a tick in which the network call failed has ended: its document holds the
\* other categories' samples of that tick and the next tick is armed
C12_Witness ==
  /\ statsTicks = 2
  /\ statsInFlight = {}
  /\ lastStat.failed = {"network"}
  /\ Len(statsTimers) = 1
  /\ statsFile.kind = "json"
  /\ statsFile.data = histograms
  /\ Len(histograms["network"]) = 1
  /\ \A c \in Cats \ {"network"} : Len(histograms[c]) = 2

\* C13: a network or disk sample stores floor(rate * interval / 1000 / 1024 / 1024)
\* where interval is the time of its tick minus the time of the previous tick, and
\* 0 on the first tick of a run; so the first sample's volume is 0, and 2097152
\* bytes/s over 5000 ms are stored as 10.
FloorMb(rate, ms) ==
  CHOOSE mb \in 0..(rate \div 1048576 + 1) * (ms \div 1000 + 1) :
    LET whole == (rate \div 1048576) * ms
        part  == ((rate % 1048576) * ms) \div 1048576
    IN mb * 1000 <= whole + part /\ whole + part < (mb + 1) * 1000

Reported == postPc = "reported" /\ marker /\ reportProcs # <<>>
Range(seq) == { seq[i] : i \in DOMAIN seq }
Count(seq, r) == Cardinality({ i \in DOMAIN seq : seq[i] = r })
Min(a, b) == IF a <= b THEN a ELSE b

\* the spec's scenario: durations [100, 500, 300, 700, 200]
ScenarioStarts == <<1000, 3000, 2000, 1500, 500>>
ScenarioDurations == <<100, 500, 300, 700, 200>>
Scenario ==
  [i \in 1..5 |->
     Complete([pid |-> i, name |-> "a", command |-> "ca", params |-> "", started |-> ScenarioStarts[i],
               pcpu |-> 0, pmem |-> 0], ScenarioStarts[i] + ScenarioDurations[i])]
ScenarioSelected == selectTopProcessesByDuration(Scenario, 3)
ScenarioRows == ProcessLines(ScenarioSelected)

\* C14: of the n filtered processes the chart generator selects exactly min(K, n)
\* for a cap K >= 0, all of them from the filtered list, and no process left out
\* has a greater duration than a selected one; in the scenario with K = 3 the
\* selected durations are {700, 500, 300}.
C14_TopK ==
  /\ (Reported /\ env.config.chartShow /\ env.config.chartMaxCount >= 0) =>
       /\ Len(reportSelected) = Min(env.config.chartMaxCount, Len(reportFiltered))
       /\ \A r \in Range(reportSelected) : Count(reportSelected, r) <= Count(reportFiltered, r)
       /\ \A u \in Range(reportFiltered) :
            Count(reportSelected, u) < Count(reportFiltered, u) =>
              \A r \in Range(reportSelected) : u.duration <= r.duration
  /\ { r.duration : r \in Range(ScenarioSelected) } = {700, 500, 300}
  /\ Len(ScenarioSelected) = 3

\* the cap cut the list: the two processes that come first in the list were left
\* out and the third, which lasted longer than both, was selected
C14_Witness ==
  /\ Reported
  /\ env.config.chartShow
  /\ env.config.chartMaxCount = 1
  /\ Len(reportFiltered) = 3
  /\ Len(reportSelected) = 1
  /\ reportSelected[1] = reportFiltered[3]
  /\ reportSelected[1].duration > reportFiltered[1].duration
  /\ reportSelected[1].duration > reportFiltered[2].duration

\* C15: the Gantt chart has one row per selected process, row i showing the i-th
\* selected process, and the rows are in ascending order of start time, whatever
\* the order of the completed list.
C15_Chronological ==
  /\ (Reported /\ env.config.chartShow) =>
       /\ Len(reportChart) = Len(reportSelected)
       /\ \A i \in DOMAIN reportChart :
            /\ reportChart[i].start = reportSelected[i].started
            /\ reportChart[i].finish = reportSelected[i].ended
            /\ reportChart[i].label = reportSelected[i].name
       /\ \A i \in 1..(Len(reportChart) - 1) : reportChart[i].start <= reportChart[i + 1].start
  /\ <<ScenarioRows[1].start, ScenarioRows[2].start, ScenarioRows[3].start>> = <<1500, 2000, 3000>>

\* the completed list had the later and longer process first; the chart shows
\* the two in order of start time
C15_Witness ==
  /\ Reported
  /\ env.config.chartShow
  /\ Len(reportFiltered) = 2
  /\ reportFiltered[1].started > reportFiltered[2].started
  /\ reportFiltered[1].duration > reportFiltered[2].duration
  /\ Len(reportChart) = 2
  /\ reportChart[1].start = reportFiltered[2].started
  /\ reportChart[2].start = reportFiltered[1].started

\* C16: report() keeps, in their order, exactly the completed processes whose
\* duration is not below minDuration (all of them for minDuration = -1); the chart
\* selection is taken from this filtered list and the table has one row for each
\* of its processes, so every charted process is in the table.
NotBelow(proc, m) == ~(proc.duration < m)

C16_MinDurationFilter ==
  Reported =>
    /\ reportFiltered = SelectSeq(reportProcs, LAMBDA proc : NotBelow(proc, env.config.minDuration))
    /\ env.config.minDuration = -1 => reportFiltered = reportProcs
    /\ \A r \in Range(reportSelected) : r \in Range(reportFiltered)
    /\ env.config.tableShow =>
         /\ Len(reportTable) = Len(reportFiltered)
         /\ \A i \in DOMAIN reportTable :
              /\ reportTable[i].pid = reportFiltered[i].pid
              /\ reportTable[i].started = reportFiltered[i].started
              /\ reportTable[i].duration = reportFiltered[i].duration
         /\ \A r \in Range(reportSelected) : \E i \in DOMAIN reportTable :
              /\ reportTable[i].started = r.started
              /\ reportTable[i].duration = r.duration

\* a process shorter than minDuration was dropped and one lasting exactly
\* minDuration kept, in the chart and in the table
C16_Witness ==
  /\ Reported
  /\ env.config.minDuration = 2 * ClockStep
  /\ env.config.chartShow
  /\ env.config.tableShow
  /\ env.config.chartMaxCount = MaxChartLen
  /\ Len(reportProcs) = 3
  /\ reportProcs[1].duration = ClockStep
  /\ reportProcs[2].duration = 2 * ClockStep
  /\ reportProcs[3].duration = 3 * ClockStep
  /\ Len(reportFiltered) = 2
  /\ Len(reportChart) = 2
  /\ Len(reportTable) = 2
  /\ reportTable[1].duration = 2 * ClockStep

\* C17: with the marker absent finish() returns false and report() returns null
\* without calling loadData(); with the marker present finish() returns true; and
\* the marker is present whenever start() returned true or the background process
\* was spawned.
C17_MarkerGating ==
  /\ postPc # "idle" => finishResult = marker
  /\ (postPc = "reported" /\ ~marker) => (reportResult = "null" /\ ~reportLoaded)
  /\ (postPc = "reported" /\ marker) => reportLoaded
  /\ (mainPc = "started" \/ bgPc # "off") => marker

\* start() failed before it wrote the marker; finish() returned false and report()
\* returned null without loading
C17_Witness ==
  /\ mainPc = "failed"
  /\ ~marker
  /\ postPc = "reported"
  /\ finishResult = FALSE
  /\ reportResult = "null"
  /\ ~reportLoaded

\* C18: the process document changes only in a successful tick of the background
\* tracer, which replaces it by the whole of the tracer's state; start(), finish()
\* and report() leave it as it is.
C18_SingleWriter ==
  /\ [][procFile' # procFile =>
          /\ TickOkDone
          /\ procFile' = Stringify([completed |-> completedProcesses',
                                    tracked |-> trackedProcesses'])]_vars
  /\ [][(postPc' # postPc \/ mainPc' # mainPc) => procFile' = procFile]_vars

\* finish() and report() have run on a document that holds a completed process
\* and a tracked one
C18_Witness ==
  /\ postPc = "reported"
  /\ reportResult = "content"
  /\ procFile.kind = "json"
  /\ Len(procFile.completed) >= 1
  /\ Len(procFile.tracked) >= 1

\* C19: every CompletedProcess has duration = ended - started and duration >= 0,
\* whatever start time the provider reported for the process.
C19_DurationNonNegative ==
  \A j \in DOMAIN completedProcesses :
    /\ completedProcesses[j].duration =
         JsSub(completedProcesses[j].ended, completedProcesses[j].started)
    /\ completedProcesses[j].duration >= 0

\* C20: whatever fails (writing the marker, spawning, loading, generating the
\* report), start() and finish() resolve to a boolean and report() resolves to
\* the content or null; no call ends with an exception.
C20_NoFailurePropagates ==
  /\ mainPc \in {"idle", "started", "failed"}
  /\ finishResult \in BOOLEAN
  /\ reportResult \in {"none", "null", "content"}
  /\ postPc = "reported" => reportResult \in {"null", "content"}
  /\ (postPc = "reported" /\ reportResult = "content") => (marker /\ reportProcs # <<>>)

\* the generators threw on a loaded, non-empty completed list and report()
\* returned null
C20_Witness ==
  /\ mainPc = "started"
  /\ postPc = "reported"
  /\ finishResult = TRUE
  /\ reportLoaded
  /\ reportProcs # <<>>
  /\ reportResult = "null"

\* C21: a tick that sees a PID which is not tracked but has a CompletedProcess
\* makes a fresh tracked entry from this snapshot alone (start time, or the tick's
\* time when none is reported, and the readings as peaks) and leaves the earlier
\* records as they are; when a tracked PID with an earlier record disappears, one
\* more record is appended for it and the earlier ones stay.
HasRecord(completed, pid) == \E j \in DOMAIN completed : completed[j].pid = pid
Records(completed, pid) == Cardinality({ j \in DOMAIN completed : completed[j].pid = pid })
IsPrefix(a, b) == Len(a) <= Len(b) /\ SubSeq(b, 1, Len(a)) = a

C21_PidReuse ==
  [][TickOkDone =>
       /\ \A k \in DOMAIN lastTick'.list :
            LET p == lastTick'.list[k] IN
            (p.pid # 0 /\ ~HasPid(trackedProcesses, p.pid) /\ HasRecord(completedProcesses, p.pid)) =>
              \E n \in DOMAIN trackedProcesses' :
                LET new == trackedProcesses'[n] IN
                /\ new.pid = p.pid
                /\ new.started = IF p.started = None THEN now ELSE DateGetTime(p.started)
                /\ new.pcpu = IF p.cpu = None THEN 0 ELSE p.cpu
                /\ new.pmem = IF p.mem = None THEN 0 ELSE p.mem
                /\ new.name = IF p.name = "" THEN "unknown" ELSE p.name
       /\ IsPrefix(completedProcesses, completedProcesses')
       /\ \A i \in DOMAIN trackedProcesses :
            LET r == trackedProcesses[i] IN
            (r.pid \notin ListPids(lastTick'.list) /\ HasRecord(completedProcesses, r.pid)) =>
              /\ Records(completedProcesses', r.pid) = Records(completedProcesses, r.pid) + 1
              /\ completedProcesses'[Len(completedProcesses')].started = r.started
                   \/ Len(completedProcesses') > Len(completedProcesses) + 1]_vars

\* the same PID has two records: the first from a process seen with start time
\* and readings, the second from one seen later without them
C21_Witness ==
  /\ Len(completedProcesses) = 2
  /\ completedProcesses[1].pid = completedProcesses[2].pid
  /\ completedProcesses[1].started < JobStart
  /\ completedProcesses[1].maxCpu = 1
  /\ completedProcesses[2].started > completedProcesses[1].ended
  /\ completedProcesses[2].maxCpu = 0
  /\ completedProcesses[2].name = "unknown"

\* The deadlines T0 + k*F (k >= 0) that lie before the clock, and how many of
\* them have no tick that has started.
Passed(t0, f) == IF now > t0 THEN (now - t0 - 1) \div f + 1 ELSE 0
BgOwed == Passed(bgT0, COLLECTION_INTERVAL_MS) - (bgTicks + bgInFlight)
StatsOwed == Passed(statsT0, env.statFreq) - (statsTicks + Cardinality(statsInFlight))

\* C22 (as stated): a tick that ends at or after the next deadline arms the next
\* tick with a wait that is zero or negative, so that it runs at once, and at no
\* time has more than one deadline T0 + k*F passed without its tick having started.
C22_AtMostOneOwed ==
  /\ bgPc = "running" =>
       /\ (bgTicks >= 1 /\ bgTimers # <<>> /\ lastTick.delay <= 0) =>
            bgTimers = <<lastTick.at + 1>>
       /\ BgOwed <= 1
  /\ statsPc = "running" =>
       /\ (statsTicks >= 1 /\ statsTimers # <<>> /\ lastStat.delay <= 0) =>
            statsTimers = <<lastStat.at + 1>>
       /\ StatsOwed <= 1

\* C22: a tick that ends at or after the next deadline arms the next tick with a
\* wait that is zero or negative, so that it runs at once; the schedule moves by
\* F per tick and skips nothing, so every deadline that passed during a long tick
\* gets its own tick, one after the other, each armed without a wait until the
\* schedule is ahead of the clock again (the timer's least wait is 1 ms); one
\* tick at most is armed or in flight.
C22_CatchUp ==
  /\ bgPc = "running" =>
       /\ expectedScheduleTime = bgT0 + bgTicks * COLLECTION_INTERVAL_MS
       /\ Len(bgTimers) + bgInFlight = 1
       /\ (bgTicks >= 1 /\ bgTimers # <<>>) =>
            /\ lastTick.delay = expectedScheduleTime - lastTick.at
            /\ lastTick.delay <= 0 => bgTimers = <<lastTick.at + 1>>
       /\ (BgOwed >= 1 /\ bgTimers # <<>>) => bgTimers[1] <= now + 1
  /\ statsPc = "running" =>
       /\ statsExpected = statsT0 + statsTicks * env.statFreq
       /\ Len(statsTimers) + Cardinality(statsInFlight) = 1
       /\ (statsTicks >= 1 /\ statsTimers # <<>>) =>
            /\ lastStat.delay = statsExpected - lastStat.at
            /\ lastStat.delay <= 0 => statsTimers = <<lastStat.at + 1>>
       /\ (StatsOwed >= 1 /\ statsTimers # <<>>) => statsTimers[1] <= now + 1

\* the first tick ran past two deadlines and the second tick, run at once, is
\* followed by a third that is armed without a wait as well
C22_Witness ==
  /\ bgPc = "running"
  /\ bgTicks = 2
  /\ lastTick.at >= bgT0 + 3 * COLLECTION_INTERVAL_MS
  /\ lastTick.delay < 0
  /\ bgTimers = <<lastTick.at + 1>>
  /\ BgOwed >= 1

\* With timers running on time, a tick whose predecessor ended before the
\* deadline starts at its deadline (the first clock value from there on); it is
\* slow when it ends a clock step or more after that deadline.
SlowTickDone ==
  /\ TickDone
  /\ bgTicks = 0 \/ lastTick.delay >= 1
  /\ now >= expectedScheduleTime + ClockStep

\* What a stalled tick must leave intact: nothing moves while the provider call
\* is outstanding, and the tick that ends applies its snapshot to the state that
\* was there when it started.
StallKeepsState ==
  /\ (bgInFlight > 0 /\ now' > now) =>
       UNCHANGED <<trackedProcesses, completedProcesses, procFile, expectedScheduleTime, bgTimers>>
  /\ (SlowTickDone /\ lastTick'.outcome = "ok") =>
       /\ { trackedProcesses'[i].pid : i \in DOMAIN trackedProcesses' }
            = ListPids(lastTick'.list) \ {0}
       /\ IsPrefix(completedProcesses, completedProcesses')
       /\ \A j \in DOMAIN Emitted : Emitted[j].ended = now
       /\ \A i \in DOMAIN trackedProcesses :
            \/ HasPid(trackedProcesses', trackedProcesses[i].pid)
            \/ \E j \in DOMAIN Emitted : Emitted[j].pid = trackedProcesses[i].pid
  /\ (SlowTickDone /\ lastTick'.outcome = "failed") =>
       UNCHANGED <<trackedProcesses, completedProcesses, procFile>>

\* C23 (as stated): a stalled tick leaves the tracked and completed state intact,
\* and the next tick is scheduled from the moment the slow tick finished, not from
\* the deadline computed before: it is due one interval after that moment.
C23_NextFromFinish ==
  [][/\ StallKeepsState
     /\ SlowTickDone => bgTimers' = <<now + COLLECTION_INTERVAL_MS>>]_vars

\* C23: a stalled tick leaves the tracked and completed state intact, and the next
\* tick is scheduled from the deadline computed before: the new deadline is that
\* deadline plus F; the moment the slow tick finished enters only the wait, which
\* is the new deadline minus that moment, so the next tick is due at the new
\* deadline, or at once when the slow tick ran past it.
C23_NextFromDeadline ==
  [][/\ StallKeepsState
     /\ SlowTickDone =>
          /\ expectedScheduleTime' = expectedScheduleTime + COLLECTION_INTERVAL_MS
          /\ lastTick'.delay = expectedScheduleTime' - now
          /\ now < expectedScheduleTime' => bgTimers' = <<expectedScheduleTime'>>
          /\ now >= expectedScheduleTime' => bgTimers' = <<now + 1>>]_vars

\* the first tick was stalled for one clock step, saw a process, and the second
\* tick is due at T0 + F
C23_Witness ==
  /\ bgTicks = 1
  /\ lastTick.outcome = "ok"
  /\ lastTick.at = bgT0 + ClockStep
  /\ trackedProcesses # <<>>
  /\ bgTimers = <<bgT0 + COLLECTION_INTERVAL_MS>>

\* C24: a tick of the background tracer whose save succeeds leaves a document
\* that is the tracer's memory written out: exactly the tracked processes and all
\* the CompletedProcess records emitted so far, those of earlier ticks whose save
\* failed included, and nothing else; read back, it is that state whenever the
\* state has no value that JSON cannot hold.
Memory == [completed |-> completedProcesses, tracked |-> trackedProcesses]

C24_DocumentMirrorsMemory ==
  /\ [][(TickOkDone /\ lastTick'.saved) =>
          LET doc == Load(procFile') IN
          /\ procFile'.kind = "json"
          /\ Len(doc.completed) = Len(completedProcesses')
          /\ Len(doc.tracked) = Len(trackedProcesses')
          /\ \A j \in DOMAIN doc.completed :
               /\ doc.completed[j].pid = completedProcesses'[j].pid
               /\ doc.completed[j].ended = completedProcesses'[j].ended
               /\ doc.completed[j].name = completedProcesses'[j].name
          /\ \A i \in DOMAIN doc.tracked :
               /\ doc.tracked[i].pid = trackedProcesses'[i].pid
               /\ doc.tracked[i].name = trackedProcesses'[i].name
          /\ Valid(Memory') => doc = Memory']_vars
  /\ [][(TickOkDone /\ ~lastTick'.saved) => procFile' = procFile]_vars

\* the last tick saved, and before it the document lacked a record that an
\* earlier tick had emitted and failed to save; the document now has it
C24_Witness ==
  /\ lastTick.outcome = "ok"
  /\ lastTick.saved
  /\ lastTick.unsaved >= 1
  /\ bgInFlight = 0
  /\ Load(procFile) = Memory
  /\ trackedProcesses # <<>>

\* C25: the state report() loads is the one the background tracer wrote last in
\* full, and its completed list has every CompletedProcess emitted by the ticks
\* that finished before report() started; it is never empty or cut short because
\* the tracer was writing, or had failed to write, when report() read.
C25_NoStaleOrPartialRead ==
  [][(postPc = "finished" /\ postPc' = "reported" /\ marker) =>
       /\ reportLoaded'
       /\ reportProcs' = Load(Stringify(Memory)).completed]_vars

\* C26: a tick whose process-list call fails leaves the tracked set, the completed
\* list and the document exactly as they were; the schedule alone moves, by F, and
\* the next tick is armed.
C26_FailedTickNoEffect ==
  [][(TickDone /\ lastTick'.outcome = "failed") =>
       /\ trackedProcesses' = trackedProcesses
       /\ completedProcesses' = completedProcesses
       /\ procFile' = procFile
       /\ expectedScheduleTime' = expectedScheduleTime + COLLECTION_INTERVAL_MS
       /\ Len(bgTimers') = 1]_vars

\* the third tick or a later one failed while a process was tracked, a record
\* completed and the document written
C26_Witness ==
  /\ lastTick.outcome = "failed"
  /\ bgInFlight = 0
  /\ bgTicks >= 3
  /\ lastTick.at > lastTick.seen
  /\ trackedProcesses # <<>>
  /\ completedProcesses # <<>>
  /\ procFile = Stringify(Memory)

\* C27: the tracked PIDs are the non-zero PIDs of the snapshot of the last
\* successful tick, no more and no fewer, and each PID has one tracked record,
\* its own.
TrackedPids == { trackedProcesses[i].pid : i \in DOMAIN trackedProcesses }

C27_TrackedIsSnapshot ==
  /\ TrackedPids = ListPids(lastTick.list) \ {0}
  /\ Cardinality(TrackedPids) = Len(trackedProcesses)

\* the last snapshot had an entry without pid and a process that an earlier
\* snapshot lacked; the process alone is tracked
C27_Witness ==
  /\ lastTick.outcome = "ok"
  /\ bgInFlight = 0
  /\ 0 \in ListPids(lastTick.list)
  /\ Len(lastTick.list) >= 2
  /\ Len(trackedProcesses) = Len(lastTick.list) - 1
  /\ completedProcesses # <<>>
  /\ trackedProcesses[1].pid = completedProcesses[1].pid

\* C28: as long as a PID stays tracked, its name, command, params and start time
\* are those of the tick that first saw it, whatever the provider reports later;
\* a step changes nothing of a tracked record but its two peaks.
C28_IdentityFrozen ==
  [][\A i \in DOMAIN trackedProcesses :
       \A n \in DOMAIN trackedProcesses' :
         LET old == trackedProcesses[i]
             new == trackedProcesses'[n]
         IN new.pid = old.pid =>
              /\ new.name = old.name
              /\ new.command = old.command
              /\ new.params = old.params
              /\ new.started = old.started
              /\ DOMAIN new = {"pid", "name", "command", "params", "started", "pcpu", "pmem"}]_vars

\* a process first seen without name, start time and readings is still tracked
\* as such after a tick in which the provider reported all of them; its CPU peak
\* is the new reading
C28_Witness ==
  /\ lastTick.outcome = "ok"
  /\ bgInFlight = 0
  /\ Len(trackedProcesses) = 1
  /\ trackedProcesses[1].name = "unknown"
  /\ trackedProcesses[1].command = ""
  /\ trackedProcesses[1].started >= JobStart
  /\ trackedProcesses[1].started < lastTick.at
  /\ trackedProcesses[1].pcpu = 1
  /\ lastTick.list[1].pid = trackedProcesses[1].pid
  /\ lastTick.list[1].name = "a"
  /\ lastTick.list[1].started = 500

\* C29: the completed list only grows at its end: after any step the list as it
\* was is the beginning of the list as it is, record for record, and the records
\* a tick adds come after it and carry that tick's time.
C29_CompletedAppendOnly ==
  [][/\ IsPrefix(completedProcesses, completedProcesses')
     /\ completedProcesses' # completedProcesses =>
          /\ TickOkDone
          /\ \A j \in DOMAIN Emitted : Emitted[j].ended = now]_vars

\* two ticks have each added a record
C29_Witness ==
  /\ Len(completedProcesses) = 2
  /\ completedProcesses[1].ended < completedProcesses[2].ended
  /\ completedProcesses[2].ended = lastTick.seen
  /\ procFile = Stringify(Memory)

\* C30: a metric history only grows at its end, one sample at a time; of the
\* tick started last, each category has one sample at most, none if its call
\* has failed, and every such sample carries the time at which the tick started.
C30_HistoriesAppendOnly ==
  /\ [][\A c \in Cats :
          /\ IsPrefix(histograms[c], histograms'[c])
          /\ Len(histograms'[c]) <= Len(histograms[c]) + 1]_vars
  /\ [](\A c \in Cats :
          /\ Len(histograms[c]) <= lastStat.base[c] + 1
          /\ c \in lastStat.failed => Len(histograms[c]) = lastStat.base[c]
          /\ \A k \in DOMAIN histograms[c] :
               k > lastStat.base[c] => histograms[c][k].time = lastStat.began)

\* the second tick has ended later than it started, its network call failed and
\* the other categories have their second sample, stamped with the tick's start
C30_Witness ==
  /\ statsTicks = 2
  /\ statsInFlight = {}
  /\ lastStat.at > lastStat.began
  /\ lastStat.failed = {"network"}
  /\ Len(histograms["network"]) = 1
  /\ \A c \in Cats \ {"network"} :
       /\ Len(histograms[c]) = 2
       /\ histograms[c][2].time = lastStat.began
       /\ histograms[c][1].time < lastStat.began

\* C31: when a sample is added to the network or disk history after an earlier
\* one, the interval its rate was converted with is the time between the two
\* samples, also when the category's call failed on a tick in between.
C31_IntervalAccounting ==
  [][\A c \in {"network", "disk"} :
       (Len(histograms'[c]) = Len(histograms[c]) + 1 /\ Len(histograms[c]) >= 1) =>
         \E f \in statsPending \ statsPending' :
           /\ f.cat = c
           /\ f.timeInterval = histograms'[c][Len(histograms'[c])].time
                                  - histograms[c][Len(histograms[c])].time]_vars

\* C32: no failure of the chart service leaves reportWorkflowMetrics() as an
\* exception, and the report has no section for a metric none of whose charts
\* could be rendered for any theme.
Rendered(chart) == charts[chart].sources # {}

C32_ChartFailureSilent ==
  /\ ~chartThrown
  /\ chartPc = Len(ChartNames) + 2 =>
       /\ ~Rendered("cpuLoad") => ~(\E k \in DOMAIN postContentItems :
                                      postContentItems[k] = "CPU Metrics")
       /\ ~Rendered("memoryUsage") => ~(\E k \in DOMAIN postContentItems :
                                          postContentItems[k] = "Memory Metrics")
       /\ (~Rendered("networkIORead") /\ ~Rendered("networkIOWrite")) =>
            ~(\E k \in DOMAIN postContentItems : postContentItems[k] = "Network I/O")
       /\ (~Rendered("diskIORead") /\ ~Rendered("diskIOWrite")) =>
            ~(\E k \in DOMAIN postContentItems : postContentItems[k] = "Disk I/O")
       /\ ~Rendered("diskSizeUsage") => ~(\E k \in DOMAIN postContentItems :
                                            postContentItems[k] = "Disk Size Metrics")


\* C33: a missing or unparseable configuration input is replaced by the
\* documented default: the loaded minimum duration is -1, the chart row cap
\* and the sampling frequency are positive, and the process chart shows up to
\* the default number of rows.
C33_ConfigFallback ==
  LET unusable(input) == parseInt(input) = NaN IN
  /\ (cfgPc \in {"start", "report", "done"} /\ unusable(cfgInputs.proc_trace_min_duration))
       => cfgConfig.minDuration = -1
  /\ (cfgPc \in {"start", "report", "done"} /\ unusable(cfgInputs.proc_trace_chart_max_count))
       => cfgConfig.chartMaxCount > 0
  /\ (cfgPc \in {"post", "report", "done"} /\ unusable(cfgInputs.metric_frequency))
       => cfgFreq = DEFAULT_FREQUENCY_MS
  /\ (cfgPc = "done" /\ unusable(cfgInputs.proc_trace_chart_max_count))
       => Len(cfgRows) = IF Len(cfgCompleted) <= DEFAULT_PROC_TRACE_CHART_MAX_COUNT
                         THEN Len(cfgCompleted) ELSE DEFAULT_PROC_TRACE_CHART_MAX_COUNT

\* C34: once finish() of the stats collector has returned true, the answer to
\* a GET of a category whose fetch of the triggered collection succeeds holds
\* the sample of that collection.
C34_FinishSampleServed ==
  \A c \in SrvCats :
    (srvPc = "finished" /\ srvGot[c].answered /\ c \in srvAppended)
      => \E i \in DOMAIN srvGot[c].body : srvGot[c].body[i] = srvStatCollectTime

\* C35: after finish() of the in-process tracer has returned true in the
\* process that ran start(), the tracked set is empty and stays empty, the
\* saved document has an empty tracked list, and every process that was seen
\* is recorded exactly once in completed, also when an interval callback was
\* in flight.
C35_FinishedIsFinal ==
  (ipPc = "finished" /\ ipSameProcess) =>
    /\ ipTracked = <<>>
    /\ ipDataFile.tracked = <<>>
    /\ \A p \in IpPids : Count(ipDataFile.completed, p) <= 1

\* C36: finish() in another process than start() keeps every record that
\* was in the data file when it was called.
C36_PersistedRecordsKept ==
  (ipPc = "finished" /\ ~ipSameProcess) =>
    \A p \in Range(ipBefore) : Count(ipDataFile.completed, p) >= 1

\* C37: with start(), finish() and report() of the class-based tracer called
\* in this order, a report() that follows a finish() that returned true does
\* not take the "didn't finish" path and returns a report.
C37_ReportAfterFinish ==
  (clsPc = "reported" /\ clsFinishResult = "true")
    => (~clsReportSkipped /\ ~clsReportResult.null)

\* the events written for one pid
EventsOf(p) == SelectSeq(natEvents, LAMBDA e : e.pid = p)

Alternates(events) ==
  \A i \in DOMAIN events : events[i].event = (IF i % 2 = 1 THEN "EXEC" ELSE "EXIT")

\* a call of start() or stop() that finds nothing to do
NatNoOp == natCalls' /= natCalls

\* C38: the events written for each pid alternate EXEC, EXIT, ... from an
\* EXEC; once the tracer is stopped every EXEC has its EXIT and nothing is
\* written any more; start() on a running tracer and stop() on a stopped one
\* change nothing.
C38_EventStream ==
  /\ [](\A p \in IpPids : Alternates(EventsOf(p)))
  /\ [](natPc = "stopped" => \A p \in IpPids : Len(EventsOf(p)) % 2 = 0)
  /\ [][natPc = "stopped" => natEvents' = natEvents]_vars
  /\ [][NatNoOp => UNCHANGED <<natPc, natRunning, natStream, natInterval, natPrevious,
                               natInFlight, natEvents>>]_vars

\* a process list that was in flight at stop() has arrived after it, with
\* processes running, and the stream holds the events of two processes
C38_Witness ==
  /\ natPc = "stopped"
  /\ natPrevious /= {}
  /\ natCalls = 1
  /\ Len(natEvents) >= 4

\* C39: getCurrentJob() ends: it calls findCurrentJob() at most
\* CURRENT_JOB_RETRY_COUNT times, with a wait before every call but the first,
\* returns a job as soon as one is found in progress on this runner and null
\* after the last attempt; a failed request ends it with null at once; with
\* null run() calls no finish() and no report().
C39_LookupTerminates ==
  /\ <>(jobPc = "done")
  /\ [](jobAttempts <= CURRENT_JOB_RETRY_COUNT)
  /\ []((jobResult = "null" /\ ~jobThrown) => jobAttempts = CURRENT_JOB_RETRY_COUNT)
  /\ [](jobThrown => jobResult = "null")
  /\ [](jobResult = "null" => (jobFinishCalls = 0 /\ jobReportCalls = 0))
  /\ [](jobPc = "done" => jobResult \in {"job", "null"})
  /\ [][(jobAttempts' /= jobAttempts /\ jobAttempts > 0) => jobPc = "waiting"]_vars
  /\ [][jobResult /= "none" => (jobAttempts' = jobAttempts /\ jobResult' = jobResult)]_vars

\* every attempt came back without a job and run() has returned
C39_Witness ==
  /\ jobPc = "done"
  /\ jobResult = "null"
  /\ ~jobThrown
  /\ jobAttempts = CURRENT_JOB_RETRY_COUNT
=============================================================================
